---------------------------- MODULE Spec2Model ----------------------------
(***************************************************************************)
(* State-machine model of the authentication / authorization core of the   *)
(* FribbleQuibble backend: the request gate (jwtVerifyStrict and           *)
(* jwtVerifySoft in api/server.js), the token helpers (util/tokenedit.js), *)
(* the route resolver (resolveRouteHandler, errorHandler) and the user and *)
(* auth route routines (routes/user.js, routes/auth.js).                   *)
(*                                                                         *)
(* One step of the model is one run of JavaScript between two awaits: the  *)
(* event loop runs such a segment without interleaving, and every await on *)
(* the pool or on a query is a point where another request may run.        *)
(***************************************************************************)
EXTENDS Integers, Sequences, FiniteSets, TLC

(***************************************************************************)
(* Bounds of the model.                                                    *)
(***************************************************************************)
MaxTime == 2
MaxReq == 2
MaxUserId == 2
MaxQuibbleId == 2

(***************************************************************************)
(* Program constants.                                                      *)
(***************************************************************************)
ACCESS_LEVEL_USER == 1
ACCESS_LEVEL_MODERATOR == 2
ACCESS_LEVEL_ADMIN == 3
ACCESS_LEVEL_DEVELOPER == 4
JWT_ACCESS_EXPIRE_TIME == 1
JWT_REFRESH_EXPIRE_TIME == 2
COOKIE_EXPIRY_TIME_SECONDS == 2
DB_CONN_LIMIT == 2
USERNAME_MAX_LENGTH == 3

Clients == {"c1", "c2"}
UserIds == 1..MaxUserId

\* rows of the access table (the target of user.access_level's foreign key)
AccessTable == {ACCESS_LEVEL_USER, ACCESS_LEVEL_MODERATOR,
                ACCESS_LEVEL_ADMIN, ACCESS_LEVEL_DEVELOPER}

VARIABLES user, now, jar, req, free, nreq, topic, user_choice, kept, discussion,
          quibble, user_auto_increment

vars == <<user, now, jar, req, free, nreq, topic, user_choice, kept, discussion,
          quibble, user_auto_increment>>

(***************************************************************************)
(* Tokens.  A cookie slot holds no cookie, a string that is not a token    *)
(* signed with JWT_SECRET, or a signed token with its payload.  A refresh  *)
(* token is signed over {id} only.                                         *)
(***************************************************************************)
NoToken == [kind |-> "none", id |-> 0, username |-> <<>>, access_level |-> 0, exp |-> 0]
BadToken == [kind |-> "bad", id |-> 0, username |-> <<>>, access_level |-> 0, exp |-> 0]

\* jwt.sign(payload, JWT_SECRET, {expiresIn: ttl}) at time t
JwtSign(id, username, access_level, t, ttl) ==
    [kind |-> "jwt", id |-> id, username |-> username,
     access_level |-> access_level, exp |-> t + ttl]

\* jwt.verify(token, JWT_SECRET) does not throw at time t
\* a verification that also asks whether a client session still holds the token
JwtVerifies_Revocable(tok, t) ==
    /\ tok.kind = "jwt" /\ t < tok.exp
    /\ \E c \in Clients : tok \in {jar[c].access, jar[c].refresh}

JwtVerifies(tok, t) == tok.kind = "jwt" /\ t < tok.exp

\* the truthiness test `if (req.cookies.refresh_token)`
CookiePresent(tok) == tok.kind # "none"

(***************************************************************************)
(* The user table.                                                         *)
(***************************************************************************)
NoRow == [present |-> FALSE, username |-> <<>>, password_hash |-> <<"bcrypt", "">>, access_level |-> 0]

\* bcrypt.hashSync / bcrypt.compareSync, as a black box that is not the identity
BcryptHash(password) == <<"bcrypt", password>>
BcryptCompare(password, hash) == hash = BcryptHash(password)

InitPassword(id) == IF id = 1 THEN "pw1" ELSE "pw2"
InitUsername(id) == IF id = 1 THEN <<"a">> ELSE <<"b">>

\* the level pairs (user 1, user 2) the store may start with
InitLevels == {<<ACCESS_LEVEL_ADMIN, ACCESS_LEVEL_MODERATOR>>,
               <<ACCESS_LEVEL_DEVELOPER, ACCESS_LEVEL_ADMIN>>}

UserRow(id, lv) ==
    [present |-> TRUE, username |-> InitUsername(id),
     password_hash |-> BcryptHash(InitPassword(id)), access_level |-> lv]

(***************************************************************************)
(* Request inputs.                                                         *)
(***************************************************************************)
\* the :id URL parameter: an integer string, or a string that is no integer
UserIdParams == {[isInt |-> TRUE, val |-> i] : i \in 1..MaxUserId} \cup {[isInt |-> FALSE, val |-> 0]}

\* body['username']: absent, a valid name, or a name that is too long
UsernameInputs == {<<>>, <<"a">>, <<"c">>, <<"l", "o", "n", "g">>}
NewUsernameInputs == UsernameInputs \ {<<"a">>}

\* body['password']
PasswordInputs == {"", "pw1", "pw2"}

\* body['access-level']: absent, a JSON number, a JSON string of decimal
\* digits, or a number with a fractional part (val is then its floor)
AbsentLevel == [kind |-> "absent", val |-> 0]
AccessLevelInputs ==
    {AbsentLevel}
    \cup {[kind |-> "num", val |-> n] : n \in 0..(ACCESS_LEVEL_DEVELOPER + 1)}
    \cup {[kind |-> "str", val |-> n] : n \in {ACCESS_LEVEL_ADMIN, 10}}
    \cup {[kind |-> "frac", val |-> 2]}

(***************************************************************************)
(* JavaScript coercions used by the checks on body['access-level'].        *)
(***************************************************************************)
\* !accessLevel
Falsy(v) == v.kind = "absent" \/ (v.kind = "num" /\ v.val = 0)

\* Number.isInteger(+accessLevel)
IsIntegerInput(v) == v.kind \in {"num", "str"}

\* accessLevel < n and accessLevel > n with n a number: numeric comparison
NumLt(v, n) == v.val < n
NumGt(v, n) == IF v.kind = "frac" THEN v.val >= n ELSE v.val > n

RECURSIVE Digits(_)
Digits(n) == IF n < 10 THEN <<n>> ELSE Append(Digits(n \div 10), n % 10)

\* s > t for two strings of decimal digits: comparison by code units
RECURSIVE LexGt(_, _)
LexGt(s, t) ==
    IF s = <<>> THEN FALSE
    ELSE IF t = <<>> THEN TRUE
    ELSE IF Head(s) # Head(t) THEN Head(s) > Head(t)
    ELSE LexGt(Tail(s), Tail(t))

\* accessLevel > process.env.X: the variable is a string, so a string
\* operand is compared as a string and a number operand as a number
GtEnv(v, n) == IF v.kind = "str" THEN LexGt(Digits(v.val), Digits(n)) ELSE NumGt(v, n)

(***************************************************************************)
(* The options of res.cookie in setRefreshToken and setAccessToken.        *)
(***************************************************************************)
\* Date.now() + process.env.X: the variable is a string, so the sum is the
\* string of the decimal digits of both
PlusEnv(t, n) == [kind |-> "str", digits |-> Digits(t) \o Digits(n)]

RECURSIVE Value(_)
Value(digits) == IF digits = <<>> THEN 0 ELSE 10 * Value(SubSeq(digits, 1, Len(digits) - 1)) + digits[Len(digits)]

\* new Date(value): a number is the instant itself; a string is parsed as a
\* date, and the digits of Date.now() followed by more digits are no date
\* (Invalid Date)
NewDate(v) ==
    IF v.kind = "num" THEN [valid |-> TRUE, time |-> Value(v.digits)]
    ELSE [valid |-> FALSE, time |-> 0]

NoCookieOptions == [httpOnly |-> FALSE, expires |-> [valid |-> FALSE, time |-> 0]]

\* the options setRefreshToken passes at time t
RefreshCookieOptions(t) ==
    [httpOnly |-> TRUE, expires |-> NewDate(PlusEnv(t, COOKIE_EXPIRY_TIME_SECONDS))]

\* the options setAccessToken passes at time t
AccessCookieOptions(t) ==
    [httpOnly |-> FALSE, expires |-> NewDate(PlusEnv(t, COOKIE_EXPIRY_TIME_SECONDS))]

(***************************************************************************)
(* Requests.  A client has at most one request in flight.  The request     *)
(* carries in each cookie slot what the client chooses to send: the cookie *)
(* of its jar, no cookie, or a string that is no signed token.  Spec       *)
(* explores the runs in which the requests of the clients do not overlap:  *)
(* a request is received when the server has answered the one before.      *)
(***************************************************************************)
NoParam == [isInt |-> FALSE, val |-> 0]

\* what a routine throws: nothing, a RouteError with its status and code, or
\* another value (an SqlError with the code of the store, or a TypeError, a
\* ReferenceError or a plain object, which have no code)
NoError == [kind |-> "none", status |-> 0, code |-> ""]
RouteError(status, code) == [kind |-> "RouteError", status |-> status, code |-> code]
SqlError(code) == [kind |-> "Error", status |-> 0, code |-> code]
OtherError == [kind |-> "Error", status |-> 0, code |-> ""]

IdleReq ==
    [route |-> "none", pc |-> "idle", cookies |-> [access |-> NoToken, refresh |-> NoToken],
     tid |-> NoParam, name |-> <<>>,
     lvl |-> AbsentLevel, pw |-> "", userInfo |-> NoToken, glog |-> <<>>,
     status |-> 0, code |-> "", accessOp |-> "keep", refreshOp |-> "keep",
     newAccess |-> NoToken, newRefresh |-> NoToken, conn |-> FALSE,
     uid |-> 0, tlevel |-> 0, wrote |-> FALSE, err |-> NoError, nexts |-> 0, sent |-> 0,
     dbConn |-> FALSE,
     accessOpts |-> NoCookieOptions, refreshOpts |-> NoCookieOptions]

StrictRoutes == {"changeAccessLevel", "changeUsername", "removeUser", "renewAccessToken",
                 "addTopic", "addDiscussion", "addUserChoice", "removeQuibble"}
SoftRoutes == {"getInfo"}
OpenRoutes == {"login", "logout", "addUser"}
Routes == StrictRoutes \cup SoftRoutes \cup OpenRoutes

\* the createConn argument of the route's resolveRouteHandler call
CreateConn(route) == route \notin {"logout", "renewAccessToken"}

(***************************************************************************)
(* The quibble table: id BIGINT AUTO_INCREMENT, content VARCHAR(400).  A   *)
(* content is NULL or a text.                                              *)
(***************************************************************************)
QuibbleIds == 1..MaxQuibbleId
NullContent == [null |-> TRUE, text |-> ""]
TextContent(t) == [null |-> FALSE, text |-> t]
NoQuibble == [present |-> FALSE, content |-> NullContent, author_id |-> 0]
QuibbleRow(author, t) == [present |-> TRUE, content |-> TextContent(t), author_id |-> author]

\* the user each client has logged in as before the first step
InitUser(c) == IF c = "c1" THEN 1 ELSE 2

Init ==
    /\ \E lv \in InitLevels :
           user = [i \in UserIds |-> IF i <= 2 THEN UserRow(i, lv[i]) ELSE NoRow]
    /\ now = 0
    /\ jar = [c \in Clients |->
                [access |-> JwtSign(InitUser(c), user[InitUser(c)].username,
                                    user[InitUser(c)].access_level, 0, JWT_ACCESS_EXPIRE_TIME),
                 refresh |-> JwtSign(InitUser(c), <<>>, 0, 0, JWT_REFRESH_EXPIRE_TIME)]]
    /\ req = [c \in Clients |-> IdleReq]
    /\ free = DB_CONN_LIMIT
    /\ nreq = 0
    /\ topic = {}
    /\ user_choice = {}
    /\ kept = jar
    /\ quibble = [q \in QuibbleIds |-> NoQuibble]
    /\ user_auto_increment = 3
    /\ discussion = {}

(***************************************************************************)
(* The clients and the clock.                                              *)
(***************************************************************************)
\* time passes, in units that are long against the time a request takes
Tick ==
    /\ now < MaxTime
    /\ \A c \in Clients : req[c].pc = "idle"
    /\ now' = now + 1
    /\ UNCHANGED <<quibble, user_auto_increment, discussion, topic, user_choice, kept, user, jar, req, free, nreq>>

\* no request is in flight
Quiet == \A c \in Clients : req[c].pc = "idle"

\* a client sends a request; routes behind a gate start in the gate
NewReq(cookies, route, tid, name, lvl, pw) ==
    [IdleReq EXCEPT !.cookies = cookies, !.route = route, !.tid = tid, !.name = name, !.lvl = lvl, !.pw = pw,
                    !.pc = IF route \in OpenRoutes THEN "route" ELSE "gate"]

Receive(c) ==
    /\ Quiet
    /\ nreq < MaxReq
    /\ nreq' = nreq + 1
    /\ \/ \E tid \in UserIdParams, lvl \in AccessLevelInputs :
             req' = [req EXCEPT ![c] = NewReq(jar[c], "changeAccessLevel", tid, <<>>, lvl, "")]
       \/ \E tid \in UserIdParams, name \in NewUsernameInputs :
             req' = [req EXCEPT ![c] = NewReq(jar[c], "changeUsername", tid, name, AbsentLevel, "")]
       \/ \E tid \in UserIdParams :
             req' = [req EXCEPT ![c] = NewReq(jar[c], "removeUser", tid, <<>>, AbsentLevel, "")]
       \/ \E a \in {jar[c].access, NoToken, BadToken}, f \in {jar[c].refresh, NoToken, BadToken},
             route \in {"getInfo", "renewAccessToken"} :
             req' = [req EXCEPT ![c] =
                       NewReq([access |-> a, refresh |-> f], route, NoParam, <<>>, AbsentLevel, "")]
    /\ UNCHANGED <<quibble, user_auto_increment, discussion, topic, user_choice, kept, user, now, jar, free>>

\* a client sends a request to a route without a gate
ReceiveOpen(c) ==
    /\ Quiet
    /\ nreq < MaxReq
    /\ nreq' = nreq + 1
    /\ \/ \E name \in UsernameInputs, pw \in PasswordInputs :
             req' = [req EXCEPT ![c] = NewReq(jar[c], "login", NoParam, name, AbsentLevel, pw)]
       \/ req' = [req EXCEPT ![c] = NewReq(jar[c], "logout", NoParam, <<>>, AbsentLevel, "")]
    /\ UNCHANGED <<quibble, user_auto_increment, discussion, topic, user_choice, kept, user, now, jar, free>>

\* the cookie a slot holds once the response's Set-Cookie headers are applied
ApplyCookie(old, op, new) ==
    IF op = "set" THEN new ELSE IF op = "clear" THEN NoToken ELSE old

\* the response reaches the client, whose jar applies its cookies
Deliver(c) ==
    /\ req[c].pc = "done"
    /\ jar' = [jar EXCEPT ![c] =
                 [access |-> ApplyCookie(jar[c].access, req[c].accessOp, req[c].newAccess),
                  refresh |-> ApplyCookie(jar[c].refresh, req[c].refreshOp, req[c].newRefresh)]]
    /\ req' = [req EXCEPT ![c] = IdleReq]
    /\ UNCHANGED <<quibble, user_auto_increment, discussion, topic, user_choice, kept, user, now, free, nreq>>

(***************************************************************************)
(* The request gate.  glog lists what the gate does, in order.             *)
(***************************************************************************)
Log(r, events) == [r EXCEPT !.glog = r.glog \o events]

\* next(): the route's resolveRouteHandler call runs
CallNext(r) == [Log(r, <<"next">>) EXCEPT !.pc = "route"]

\* the catch block of jwtVerifyStrict testing the access cookie instead
StrictCatch_ByAccess(r, refresh_token) ==
    IF CookiePresent(r.cookies.access)
    THEN [Log(r, <<"clearCookie", "send401">>) EXCEPT
             !.accessOp = "clear", !.refreshOp = "clear",
             !.status = 401, !.code = "USER_LOGIN_ENDED", !.pc = "done"]
    ELSE [Log(r, <<"send401">>) EXCEPT
             !.status = 401, !.code = "USER_NOT_LOGGED_IN", !.pc = "done"]

\* the catch block of jwtVerifyStrict
StrictCatch(r, refresh_token) ==
    IF CookiePresent(refresh_token)
    THEN [Log(r, <<"clearCookie", "send401">>) EXCEPT
             !.accessOp = "clear", !.refreshOp = "clear",
             !.status = 401, !.code = "USER_LOGIN_ENDED", !.pc = "done"]
    ELSE [Log(r, <<"send401">>) EXCEPT
             !.status = 401, !.code = "USER_NOT_LOGGED_IN", !.pc = "done"]

\* the catch block of jwtVerifySoft answering as jwtVerifyStrict does
SoftCatch_Rejects(r, refresh_token) == StrictCatch(r, refresh_token)

\* the catch block of jwtVerifySoft, and the next() after it
SoftCatch(r, refresh_token) ==
    IF CookiePresent(refresh_token)
    THEN CallNext([Log(r, <<"clearCookie">>) EXCEPT
                      !.accessOp = "clear", !.refreshOp = "clear"])
    ELSE CallNext(r)

\* the catch block of the gate the route is declared with
GateCatch(r, refresh_token) ==
    IF r.route \in StrictRoutes THEN StrictCatch(r, refresh_token) ELSE SoftCatch(r, refresh_token)

\* the gate examining the refresh token before the access token
GateEnter_RefreshFirst(r, cookies, t) ==
    IF JwtVerifies(cookies.refresh, t)
    THEN [Log(r, <<"verifyRefresh">>) EXCEPT !.uid = cookies.refresh.id, !.pc = "cat_conn"]
    ELSE IF JwtVerifies(cookies.access, t)
         THEN CallNext([Log(r, <<"verifyRefresh", "verifyAccess">>) EXCEPT
                           !.userInfo = cookies.access])
         ELSE GateCatch(Log(r, <<"verifyRefresh", "verifyAccess">>), cookies.refresh)

\* the first try block of both gates, and the refresh token's verification
\* up to createAccessToken's await of a connection
GateEnter(r, cookies, t) ==
    IF JwtVerifies(cookies.access, t)
    THEN CallNext([Log(r, <<"verifyAccess">>) EXCEPT !.userInfo = cookies.access])
    ELSE IF JwtVerifies(cookies.refresh, t)
         THEN [Log(r, <<"verifyAccess", "verifyRefresh">>) EXCEPT
                  !.uid = cookies.refresh.id, !.pc = "cat_conn"]
         ELSE GateCatch(Log(r, <<"verifyAccess", "verifyRefresh">>), cookies.refresh)

jwtVerifyStrict(c) ==
    /\ req[c].pc = "gate"
    /\ req[c].route \in StrictRoutes
    /\ req' = [req EXCEPT ![c] = GateEnter(req[c], req[c].cookies, now)]
    /\ UNCHANGED <<quibble, user_auto_increment, discussion, topic, user_choice, kept, user, now, jar, free, nreq>>

jwtVerifySoft(c) ==
    /\ req[c].pc = "gate"
    /\ req[c].route \in SoftRoutes
    /\ req' = [req EXCEPT ![c] = GateEnter(req[c], req[c].cookies, now)]
    /\ UNCHANGED <<quibble, user_auto_increment, discussion, topic, user_choice, kept, user, now, jar, free, nreq>>

\* createAccessToken signing a token from the fields of a row it did not find
CreateAccessToken_Phantom(row, id, fault, t) ==
    IF fault THEN [outcome |-> "null", tok |-> NoToken]
    ELSE [outcome |-> "token",
          tok |-> JwtSign(id, row.username, row.access_level, t, JWT_ACCESS_EXPIRE_TIME)]

\* createAccessToken's result: a token, null, or a thrown TypeError
\* (userInfo is undefined when the query returned no row)
CreateAccessToken(row, id, fault, t) ==
    IF fault THEN [outcome |-> "null", tok |-> NoToken]
    ELSE IF ~row.present THEN [outcome |-> "throw", tok |-> NoToken]
    ELSE [outcome |-> "token",
          tok |-> JwtSign(id, row.username, row.access_level, t, JWT_ACCESS_EXPIRE_TIME)]

\* the renewal that sets the cookie once more
GateRenew_Twice(r, tok) ==
    [Log(r, <<"setAccess", "setAccess">>) EXCEPT
        !.accessOp = "set", !.newAccess = tok, !.userInfo = tok,
        !.accessOpts = AccessCookieOptions(now)]

\* the renewal with the identity taken from the access cookie of the request
GateRenew_Stale(r, tok) ==
    [Log(r, <<"setAccess">>) EXCEPT
        !.accessOp = "set", !.newAccess = tok, !.userInfo = r.cookies.access,
        !.accessOpts = AccessCookieOptions(now)]

\* setAccessToken, then res.locals.userInfo = jwt.verify(accessToken)
GateRenew(r, tok) ==
    [Log(r, <<"setAccess">>) EXCEPT
        !.accessOp = "set", !.newAccess = tok, !.userInfo = tok,
        !.accessOpts = AccessCookieOptions(now)]

\* jwtVerifyStrict after `await tokenEdit.createAccessToken(userId)`
StrictResume(r, res, refresh_token, t) ==
    IF res.outcome = "token"
    THEN IF JwtVerifies(res.tok, t)
         THEN CallNext(GateRenew(r, res.tok))
         ELSE StrictCatch([Log(r, <<"setAccess">>) EXCEPT
                             !.newAccess = res.tok, !.accessOpts = AccessCookieOptions(t)], refresh_token)
    ELSE StrictCatch(r, refresh_token)

\* jwtVerifySoft after `await tokenEdit.createAccessToken(userId)`
SoftResume(r, res, refresh_token, t) ==
    IF res.outcome = "token"
    THEN IF JwtVerifies(res.tok, t)
         THEN CallNext(GateRenew(r, res.tok))
         ELSE SoftCatch([Log(r, <<"setAccess">>) EXCEPT
                             !.newAccess = res.tok, !.accessOpts = AccessCookieOptions(t)], refresh_token)
    ELSE IF res.outcome = "null" THEN CallNext(r)
    ELSE SoftCatch(r, refresh_token)

GateResume(r, res, refresh_token, t) ==
    IF r.route \in StrictRoutes
    THEN StrictResume(r, res, refresh_token, t)
    ELSE SoftResume(r, res, refresh_token, t)

\* createAccessToken returning with the connection it took still held
dbConnEnd_Leak(r) == r

\* the finally block of createAccessToken: if (!conn && dbConn) dbConn.end()
dbConnEnd(r) == [r EXCEPT !.dbConn = FALSE]

\* createAccessToken(userId) without a connection: await dbPool.getConnection()
createAccessToken_getConnection(c) ==
    /\ req[c].pc = "cat_conn"
    /\ \/ /\ free > 0
          /\ free' = free - 1
          /\ req' = [req EXCEPT ![c] = [Log(req[c], <<"getConnection">>) EXCEPT
                                          !.pc = "cat_query", !.dbConn = TRUE]]
       \/ /\ free' = free
          /\ req' = [req EXCEPT ![c] =
                GateResume(Log(req[c], <<"getConnection", "storeFault">>),
                           CreateAccessToken(NoRow, req[c].uid, TRUE, now),
                           req[c].cookies.refresh, now)]
    /\ UNCHANGED <<quibble, user_auto_increment, discussion, topic, user_choice, kept, user, now, jar, nreq>>

\* createAccessToken(userId): the SELECT returns or fails, the connection is
\* ended, and the gate goes on with the result
createAccessToken_query(c) ==
    /\ req[c].pc = "cat_query"
    /\ \E fault \in BOOLEAN :
          req' = [req EXCEPT ![c] =
                GateResume(Log(dbConnEnd(req[c]), IF fault THEN <<"query", "storeFault">> ELSE <<"query">>),
                           CreateAccessToken(user[req[c].uid], req[c].uid, fault, now),
                           req[c].cookies.refresh, now)]
    /\ free' = free + (IF req[c].dbConn /\ ~req'[c].dbConn THEN 1 ELSE 0)
    /\ UNCHANGED <<quibble, user_auto_increment, discussion, topic, user_choice, kept, user, now, jar, nreq>>

(***************************************************************************)
(* resolveRouteHandler and errorHandler.                                   *)
(***************************************************************************)
\* the response is sent and res.locals.conn is left as it is
Finish_KeepsConn(r, status, code) ==
    [r EXCEPT !.status = status, !.code = code, !.pc = "done", !.sent = @ + 1]

\* the response is sent and the finally block ends res.locals.conn
Finish(r, status, code) ==
    [r EXCEPT !.status = status, !.code = code, !.pc = "done", !.conn = FALSE, !.sent = @ + 1]

\* the error translator the RouteResolver of the route is built with
ErrorTranslator(route) ==
    CASE route \in {"addUser", "changeUsername"} ->
            {[key |-> "ER_DUP_ENTRY", status |-> 400, code |-> "USERNAME_ALREADY_TAKEN"]}
      [] route = "addTopic" ->
            {[key |-> "ER_DUP_ENTRY", status |-> 400, code |-> "TOPIC_ALREADY_EXISTS"]}
      [] route = "addDiscussion" ->
            {[key |-> "ER_NO_REFERENCED_ROW_2", status |-> 400, code |-> "INVALID_TOPIC_ID"],
             [key |-> "ER_DUP_ENTRY", status |-> 400, code |-> "DISCUSSION_ALREADY_EXISTS"]}
      [] route = "addUserChoice" ->
            {[key |-> "ER_DUP_ENTRY", status |-> 400, code |-> "USER_ALREADY_VOTED"]}
      [] OTHER -> {}

\* a translator that translates nothing
translateError_Null(route, error) == NoError

\* RouteResolver.translateError: the RouteError of the entry whose key is
\* the error's code, or null (NoError)
translateError(route, error) ==
    IF error.code = "" \/ \A e \in ErrorTranslator(route) : e.key # error.code
    THEN NoError
    ELSE LET e == CHOOSE e \in ErrorTranslator(route) : e.key = error.code
         IN RouteError(e.status, e.code)

\* errorHandler
errorHandler(r, err) ==
    IF err.kind = "RouteError" THEN Finish(r, err.status, err.code)
    ELSE Finish(r, 500, "INTERNAL_SERVER_ERROR")

\* the catch block of resolveRouteHandler: next is called with the error, or
\* with its translation, and errorHandler is the next error middleware
Catch(r, err) ==
    LET thrown == [r EXCEPT !.err = err, !.nexts = @ + 1]
    IN IF err.kind = "RouteError" THEN errorHandler(thrown, err)
       ELSE IF translateError(r.route, err) # NoError
            THEN errorHandler(thrown, translateError(r.route, err))
       ELSE errorHandler(thrown, err)

\* a thrown RouteError
Throw(r, status, code) == Catch(r, RouteError(status, code))

\* a thrown error that has no code
InternalError(r) == Catch(r, OtherError)

\* a thrown SqlError of the store
ThrowSql(r, code) == Catch(r, SqlError(code))

\* connections the step from r to r2 gives back to the pool
Released(r, r2) == IF r.conn /\ ~r2.conn THEN 1 ELSE 0

\* validation.validateUserId
ValidateUserId(tid) == IF tid.isInt THEN "" ELSE "INVALID_USER_ID"

\* validation.validateUsername
ValidateUsername(name) ==
    IF name = <<>> THEN "NO_USERNAME"
    ELSE IF Len(name) > USERNAME_MAX_LENGTH THEN "USERNAME_TOO_LONG"
    ELSE ""

\* validation.validatePassword, for passwords of ASCII characters whose
\* length lies between PASSWORD_MIN_LENGTH and PASSWORD_MAX_LENGTH
ValidatePassword(pw) == IF pw = "" THEN "NO_PASSWORD" ELSE ""

(***************************************************************************)
(* routes/user.js                                                          *)
(***************************************************************************)
\* the minimum-level gate set to the moderator level
BelowAdmin_Moderator(userInfo) == userInfo.access_level < ACCESS_LEVEL_MODERATOR

\* the minimum-level gate of removeUser, changeUsername and changeAccessLevel
BelowAdmin(userInfo) == userInfo.access_level < ACCESS_LEVEL_ADMIN

\* the non-escalation check compared against the highest level instead
ExceedsRequester_Highest(lvl, userInfo) == NumGt(lvl, ACCESS_LEVEL_DEVELOPER)

\* the non-escalation check of changeAccessLevel
ExceedsRequester(lvl, userInfo) == NumGt(lvl, userInfo.access_level)

\* the checks on body['access-level'] that answer 400
AccessLevelError(lvl) ==
    IF Falsy(lvl) THEN "NO_ACCESS_LEVEL"
    ELSE IF ~IsIntegerInput(lvl) \/ NumLt(lvl, 1) \/ GtEnv(lvl, ACCESS_LEVEL_DEVELOPER)
         THEN "INVALID_ACCESS_LEVEL"
    ELSE ""

\* changeAccessLevel up to its first query
changeAccessLevel_begin(r) ==
    IF BelowAdmin(r.userInfo) THEN Throw(r, 403, "UNAUTHORIZED")
    ELSE IF ValidateUserId(r.tid) # "" THEN Throw(r, 400, ValidateUserId(r.tid))
    ELSE IF AccessLevelError(r.lvl) # "" THEN Throw(r, 400, AccessLevelError(r.lvl))
    ELSE IF ExceedsRequester(r.lvl, r.userInfo) THEN Throw(r, 403, "UNAUTHORIZED_ACCESS_LEVEL")
    ELSE [r EXCEPT !.pc = "cal_select"]

\* changeUsername up to its first query
changeUsername_begin(r) ==
    IF ValidateUserId(r.tid) # "" THEN Throw(r, 400, ValidateUserId(r.tid))
    ELSE IF ValidateUsername(r.name) # "" THEN Throw(r, 400, ValidateUsername(r.name))
    ELSE [r EXCEPT !.pc = "cu_select"]

\* the authorization of changeUsername without the comparison of the levels
MayNotChangeUsername_NoLevel(userInfo, tid, row) ==
    /\ tid.val # userInfo.id
    /\ BelowAdmin(userInfo)

\* the authorization of changeUsername against the row it has read
MayNotChangeUsername(userInfo, tid, row) ==
    /\ tid.val # userInfo.id
    /\ \/ BelowAdmin(userInfo)
       \/ userInfo.access_level <= row.access_level

\* removeUser up to its first query
removeUser_begin(r) ==
    IF BelowAdmin(r.userInfo) THEN Throw(r, 403, "UNAUTHORIZED")
    ELSE IF ValidateUserId(r.tid) # "" THEN Throw(r, 400, ValidateUserId(r.tid))
    ELSE [r EXCEPT !.pc = "ru_select"]

(***************************************************************************)
(* routes/auth.js                                                          *)
(***************************************************************************)
\* login up to its first query
login_begin(r) ==
    IF ValidateUsername(r.name) # "" THEN Throw(r, 400, ValidateUsername(r.name))
    ELSE IF ValidatePassword(r.pw) # "" THEN Throw(r, 400, ValidatePassword(r.pw))
    ELSE [r EXCEPT !.pc = "login_select"]

\* addUser up to its INSERT
addUser_begin(r) ==
    IF ValidateUsername(r.name) # "" THEN Throw(r, 400, ValidateUsername(r.name))
    ELSE IF ValidatePassword(r.pw) # "" THEN Throw(r, 400, ValidatePassword(r.pw))
    ELSE [r EXCEPT !.pc = "au_insert"]

\* logout answering without clearing the cookies
logout_routine_KeepsCookies(r) == Finish(r, 200, "")

logout_routine(r) ==
    [Finish(r, 200, "") EXCEPT !.accessOp = "clear", !.refreshOp = "clear"]

\* getInfo answering a request without identity as a forbidden one
getInfo_routine_Forbidden(r) ==
    IF r.userInfo.kind = "none"
    THEN [Throw(r, 403, "NO_USER") EXCEPT !.accessOp = "clear", !.refreshOp = "clear"]
    ELSE Finish(r, 200, "")

getInfo_routine(r) ==
    IF r.userInfo.kind = "none"
    THEN [Throw(r, 401, "NO_USER") EXCEPT !.accessOp = "clear", !.refreshOp = "clear"]
    ELSE Finish(r, 200, "")

renewAccessToken_routine(r) == Finish(r, 201, "")

(***************************************************************************)
(* routes/topic.js and validation.validateAccessLevel                      *)
(***************************************************************************)
\* body['name'] of POST /topic: absent, or a name
TopicNameInputs == {<<>>, <<"t">>}

\* validateAccessLevel after its query: the row of the requester is gone
\* (throw {}), its stored level is below the minimum, or it passes
ValidateAccessLevel(row, minAccessLevel) ==
    IF ~row.present THEN "throw"
    ELSE IF row.access_level < minAccessLevel THEN "UNAUTHORIZED_ACCESS_LEVEL"
    ELSE ""

\* addTopic up to the query of validateAccessLevel
addTopic_begin(r) == [r EXCEPT !.pc = "at_level"]

(***************************************************************************)
(* routes/discussion.js                                                    *)
(***************************************************************************)
\* body['title'] of POST /discussion: absent, or a title
DiscussionTitleInputs == {<<>>, <<"d">>}

\* body['topic-id'] of POST /discussion: absent (val 0), no integer, the id
\* of the topic "t" (val 1), or an id that no topic has (val 2)
TopicIdInputs ==
    {[isInt |-> TRUE, val |-> 0], [isInt |-> FALSE, val |-> 1],
     [isInt |-> TRUE, val |-> 1], [isInt |-> TRUE, val |-> 2]}

\* the name of the topic row an id designates
TopicOfId(i) == IF i = 1 THEN <<"t">> ELSE <<>>

\* addDiscussion up to conn.beginTransaction(); the optional description and
\* page-content are absent
addDiscussion_begin(r) ==
    IF r.userInfo.access_level < 3 THEN Throw(r, 403, "UNAUTHORIZED_ACCESS")
    ELSE IF r.name = <<>> THEN Throw(r, 400, "NO_DISCUSSION_TITLE")
    ELSE IF r.tid.isInt /\ r.tid.val = 0 THEN Throw(r, 400, "NO_TOPIC_ID")
    ELSE IF ~r.tid.isInt THEN Throw(r, 400, "INVALID_TOPIC_ID")
    ELSE [r EXCEPT !.pc = "ad_begin"]

\* the rows of the choice table; a discussion is named by its unique title
choice ==
    {[id |-> 1, discussion_id |-> <<"d">>], [id |-> 2, discussion_id |-> <<"d">>],
     [id |-> 3, discussion_id |-> <<"e">>]}

\* req.params['id'] of POST /discussion/choice/:id/user: the id of a choice,
\* an id that no choice has, or no integer
ChoiceIdParams == {[isInt |-> TRUE, val |-> i] : i \in 1..4} \cup {[isInt |-> FALSE, val |-> 0]}

\* addUserChoice up to its first query; a URL parameter is never empty
addUserChoice_begin(r) ==
    IF ~r.tid.isInt THEN Throw(r, 400, "INVALID_CHOICE_ID")
    ELSE [r EXCEPT !.pc = "auc_select"]

\* the row addUserChoice inserts for the choice row it has read
UserChoiceRow(r, ch) ==
    [choice_id |-> ch.id, user_id |-> r.userInfo.id, discussion_id |-> ch.discussion_id]

\* the uniqueness constraints of user_choice without UNIQUE(user_id, discussion_id)
DuplicateEntry_PrimaryKeyOnly(row) ==
    \E v \in user_choice : v.choice_id = row.choice_id /\ v.user_id = row.user_id

\* ER_DUP_ENTRY on user_choice: PRIMARY KEY (choice_id, user_id) and
\* UNIQUE(user_id, discussion_id)
DuplicateEntry(row) ==
    \E v \in user_choice :
        \/ v.choice_id = row.choice_id /\ v.user_id = row.user_id
        \/ v.user_id = row.user_id /\ v.discussion_id = row.discussion_id

(***************************************************************************)
(* routes/quibble.js                                                       *)
(***************************************************************************)
\* the :id URL parameter of DELETE /quibble/:id: a BigInt string, or a
\* string BigInt() does not take
QuibbleIdParams == {[isInt |-> TRUE, val |-> q] : q \in QuibbleIds} \cup {[isInt |-> FALSE, val |-> 0]}

\* translateQuibbleId: the parameter of a matched route is a non-empty string
translateQuibbleId(tid) == IF tid.isInt THEN "" ELSE "INVALID_QUIBBLE_ID"

\* removeQuibble up to the query of validateAccessLevel
removeQuibble_begin(r) == [r EXCEPT !.pc = "rq_level"]

\* the routine from its start to its first await, or to its end
RoutineStart(r) ==
    CASE r.route = "changeAccessLevel" -> changeAccessLevel_begin(r)
      [] r.route = "changeUsername" -> changeUsername_begin(r)
      [] r.route = "removeUser" -> removeUser_begin(r)
      [] r.route = "login" -> login_begin(r)
      [] r.route = "addUser" -> addUser_begin(r)
      [] r.route = "removeQuibble" -> removeQuibble_begin(r)
      [] r.route = "logout" -> logout_routine(r)
      [] r.route = "getInfo" -> getInfo_routine(r)
      [] r.route = "renewAccessToken" -> renewAccessToken_routine(r)
      [] r.route = "addTopic" -> addTopic_begin(r)
      [] r.route = "addDiscussion" -> addDiscussion_begin(r)
      [] r.route = "addUserChoice" -> addUserChoice_begin(r)

\* resolveRouteHandler: the connection is awaited when createConn is set,
\* then the routine runs to its first await
resolveRouteHandler(c) ==
    /\ req[c].pc = "route"
    /\ IF CreateConn(req[c].route)
       THEN \/ /\ free > 0
               /\ LET r2 == RoutineStart([req[c] EXCEPT !.conn = TRUE])
                  IN /\ req' = [req EXCEPT ![c] = r2]
                     /\ free' = IF r2.conn THEN free - 1 ELSE free
            \/ /\ req' = [req EXCEPT ![c] = InternalError(req[c])]
               /\ free' = free
       ELSE /\ req' = [req EXCEPT ![c] = RoutineStart(req[c])]
            /\ free' = free
    /\ UNCHANGED <<quibble, user_auto_increment, discussion, topic, user_choice, kept, user, now, jar, nreq>>

\* SELECT id FROM user WHERE id = ? in changeAccessLevel
changeAccessLevel_select(c) ==
    /\ req[c].pc = "cal_select"
    /\ \E fault \in BOOLEAN :
          LET r == req[c]
              r2 == IF fault THEN InternalError(r)
                    ELSE IF ~user[r.tid.val].present THEN Throw(r, 400, "USER_ID_NOT_FOUND")
                    ELSE [r EXCEPT !.pc = "cal_update"]
          IN /\ req' = [req EXCEPT ![c] = r2]
             /\ free' = free + Released(r, r2)
    /\ UNCHANGED <<quibble, user_auto_increment, discussion, topic, user_choice, kept, user, now, jar, nreq>>

\* UPDATE user SET access_level = ? WHERE id = ? in changeAccessLevel
changeAccessLevel_update(c) ==
    /\ req[c].pc = "cal_update"
    /\ LET r == req[c]
           row == user[r.tid.val]
       IN \E fault \in BOOLEAN :
             /\ IF fault \/ (row.present /\ r.lvl.val \notin AccessTable)
                THEN /\ req' = [req EXCEPT ![c] = InternalError(r)]
                     /\ user' = user
                ELSE /\ req' = [req EXCEPT ![c] = [Finish(r, 200, "") EXCEPT !.wrote = row.present]]
                     /\ user' = IF row.present
                                THEN [user EXCEPT ![r.tid.val].access_level = r.lvl.val]
                                ELSE user
             /\ free' = free + 1
    /\ UNCHANGED <<quibble, user_auto_increment, discussion, topic, user_choice, kept, now, jar, nreq>>

\* SELECT access_level FROM user WHERE id = ? in changeUsername, and the
\* authorization that follows it
changeUsername_select(c) ==
    /\ req[c].pc = "cu_select"
    /\ \E fault \in BOOLEAN :
          LET r == req[c]
              row == user[r.tid.val]
              r2 == IF fault THEN InternalError(r)
                    ELSE IF ~row.present THEN Throw(r, 400, "USER_ID_NOT_FOUND")
                    ELSE IF MayNotChangeUsername(r.userInfo, r.tid, row)
                         THEN Throw([r EXCEPT !.tlevel = row.access_level], 403, "UNAUTHORIZED")
                    ELSE [r EXCEPT !.tlevel = row.access_level, !.pc = "cu_update"]
          IN /\ req' = [req EXCEPT ![c] = r2]
             /\ free' = free + Released(r, r2)
    /\ UNCHANGED <<quibble, user_auto_increment, discussion, topic, user_choice, kept, user, now, jar, nreq>>

\* the unique keys of the user table: PRIMARY KEY (id); INDEX(username) and
\* INDEX(access_level) are not unique
UserUniqueKeys == {"id"}

\* ER_DUP_ENTRY: the row (id, name) repeats a unique key of another row
UserDuplicateEntry(id, name) ==
    \E i \in UserIds \ {id} :
        /\ user[i].present
        /\ "username" \in UserUniqueKeys
        /\ user[i].username = name

\* UPDATE user SET username = ? WHERE id = ? in changeUsername
changeUsername_update(c) ==
    /\ req[c].pc = "cu_update"
    /\ LET r == req[c]
           row == user[r.tid.val]
       IN \E fault \in BOOLEAN :
             /\ IF fault
                THEN /\ req' = [req EXCEPT ![c] = InternalError(r)]
                     /\ user' = user
                ELSE IF row.present /\ UserDuplicateEntry(r.tid.val, r.name)
                THEN /\ req' = [req EXCEPT ![c] = ThrowSql(r, "ER_DUP_ENTRY")]
                     /\ user' = user
                ELSE /\ req' = [req EXCEPT ![c] = [Finish(r, 200, "") EXCEPT !.wrote = row.present]]
                     /\ user' = IF row.present
                                THEN [user EXCEPT ![r.tid.val].username = r.name]
                                ELSE user
             /\ free' = free + 1
    /\ UNCHANGED <<quibble, user_auto_increment, discussion, topic, user_choice, kept, now, jar, nreq>>

\* SELECT id FROM user WHERE id = ? in removeUser
removeUser_select(c) ==
    /\ req[c].pc = "ru_select"
    /\ \E fault \in BOOLEAN :
          LET r == req[c]
              r2 == IF fault THEN InternalError(r)
                    ELSE IF ~user[r.tid.val].present THEN Throw(r, 400, "USER_ID_NOT_FOUND")
                    ELSE [r EXCEPT !.pc = "ru_delete"]
          IN /\ req' = [req EXCEPT ![c] = r2]
             /\ free' = free + Released(r, r2)
    /\ UNCHANGED <<quibble, user_auto_increment, discussion, topic, user_choice, kept, user, now, jar, nreq>>

\* DELETE FROM user WHERE id = ? in removeUser; the votes of the user go
\* with the row (fk_user_choice_user_id, ON DELETE CASCADE)
removeUser_delete(c) ==
    /\ req[c].pc = "ru_delete"
    /\ LET r == req[c]
       IN \E fault \in BOOLEAN :
             /\ IF fault
                THEN /\ req' = [req EXCEPT ![c] = InternalError(r)]
                     /\ user' = user
                     /\ user_choice' = user_choice
                ELSE /\ req' = [req EXCEPT ![c] =
                                  [Finish(r, 200, "") EXCEPT !.wrote = user[r.tid.val].present]]
                     /\ user' = [user EXCEPT ![r.tid.val] = NoRow]
                     /\ user_choice' = {v \in user_choice : v.user_id # r.tid.val}
             /\ free' = free + 1
    /\ UNCHANGED <<quibble, user_auto_increment, discussion, topic, kept, now, jar, nreq>>

\* SELECT * FROM user WHERE username = ? in login, the password check and
\* the signing of the refresh token
login_select(c) ==
    /\ req[c].pc = "login_select"
    /\ LET r == req[c]
           found == {i \in UserIds : user[i].present /\ user[i].username = r.name}
       IN \/ /\ req' = [req EXCEPT ![c] = InternalError(r)]
             /\ free' = free + 1
          \/ /\ found = {}
             /\ req' = [req EXCEPT ![c] = Throw(r, 400, "INCORRECT_USERNAME_PASSWORD")]
             /\ free' = free + 1
          \/ \E i \in found :
                IF ~BcryptCompare(r.pw, user[i].password_hash)
                THEN /\ req' = [req EXCEPT ![c] = Throw(r, 400, "INCORRECT_USERNAME_PASSWORD")]
                     /\ free' = free + 1
                ELSE /\ req' = [req EXCEPT ![c] =
                                  [r EXCEPT !.uid = i, !.pc = "login_token",
                                            !.newRefresh = JwtSign(i, <<>>, 0, now, JWT_REFRESH_EXPIRE_TIME)]]
                     /\ free' = free
    /\ UNCHANGED <<quibble, user_auto_increment, discussion, topic, user_choice, kept, user, now, jar, nreq>>

\* createAccessToken(userInfo.id, res.locals.conn) in login, and the cookies
login_token(c) ==
    /\ req[c].pc = "login_token"
    /\ \E fault \in BOOLEAN :
          LET r == req[c]
              res == CreateAccessToken(user[r.uid], r.uid, fault, now)
          IN req' = [req EXCEPT ![c] =
                IF res.outcome = "throw" THEN [InternalError(r) EXCEPT !.newRefresh = NoToken]
                ELSE [Finish(r, 200, "") EXCEPT
                         !.refreshOp = "set", !.accessOp = "set",
                         !.refreshOpts = RefreshCookieOptions(now),
                         !.accessOpts = AccessCookieOptions(now),
                         !.newAccess = IF res.outcome = "null" THEN BadToken ELSE res.tok]]
    /\ free' = free + 1
    /\ UNCHANGED <<quibble, user_auto_increment, discussion, topic, user_choice, kept, user, now, jar, nreq>>

\* a registration that stores the row with the highest level
InsertedUser_Developer(name, pw) ==
    [present |-> TRUE, username |-> name,
     password_hash |-> BcryptHash(pw), access_level |-> ACCESS_LEVEL_DEVELOPER]

\* the row INSERT INTO user (username, password_hash) stores: access_level
\* takes its DEFAULT 1
InsertedUser(name, pw) ==
    [present |-> TRUE, username |-> name,
     password_hash |-> BcryptHash(pw), access_level |-> 1]

\* INSERT INTO user (username, password_hash) VALUES (?, ?) in addUser: the
\* row takes the next AUTO_INCREMENT id
addUser_insert(c) ==
    /\ req[c].pc = "au_insert"
    /\ user_auto_increment \in UserIds
    /\ LET r == req[c]
           id == user_auto_increment
       IN \E fault \in BOOLEAN :
             /\ IF fault
                THEN /\ req' = [req EXCEPT ![c] = InternalError(r)]
                     /\ user' = user
                     /\ user_auto_increment' = user_auto_increment
                ELSE IF UserDuplicateEntry(id, r.name)
                THEN /\ req' = [req EXCEPT ![c] = ThrowSql(r, "ER_DUP_ENTRY")]
                     /\ user' = user
                     /\ user_auto_increment' = user_auto_increment
                ELSE /\ req' = [req EXCEPT ![c] = [Finish(r, 201, "") EXCEPT !.wrote = TRUE, !.uid = id]]
                     /\ user' = [user EXCEPT ![id] = InsertedUser(r.name, r.pw)]
                     /\ user_auto_increment' = id + 1
             /\ free' = free + 1
    /\ UNCHANGED <<quibble, discussion, topic, user_choice, kept, now, jar, nreq>>

\* SELECT access_level FROM user WHERE id = ? in validateAccessLevel, its
\* checks, and removeQuibble up to its SELECT
removeQuibble_validateAccessLevel(c) ==
    /\ req[c].pc = "rq_level"
    /\ \E fault \in BOOLEAN :
          LET r == req[c]
              v == ValidateAccessLevel(user[r.userInfo.id], ACCESS_LEVEL_ADMIN)
              r2 == IF fault \/ v = "throw" THEN InternalError(r)
                    ELSE IF v # "" THEN Throw(r, 403, v)
                    ELSE IF translateQuibbleId(r.tid) # "" THEN Throw(r, 400, translateQuibbleId(r.tid))
                    ELSE [r EXCEPT !.pc = "rq_select"]
          IN /\ req' = [req EXCEPT ![c] = r2]
             /\ free' = free + Released(r, r2)
    /\ UNCHANGED <<quibble, user_auto_increment, discussion, topic, user_choice, kept, user, now, jar, nreq>>

\* SELECT content FROM quibble WHERE id = ? in removeQuibble, and the checks
\* of the row
removeQuibble_select(c) ==
    /\ req[c].pc = "rq_select"
    /\ \E fault \in BOOLEAN :
          LET r == req[c]
              row == quibble[r.tid.val]
              r2 == IF fault THEN InternalError(r)
                    ELSE IF ~row.present THEN Throw(r, 400, "QUIBBLE_ID_NOT_FOUND")
                    ELSE IF row.content.null THEN Throw(r, 400, "QUIBBLE_ALREADY_DELETED")
                    ELSE [r EXCEPT !.pc = "rq_update"]
          IN /\ req' = [req EXCEPT ![c] = r2]
             /\ free' = free + Released(r, r2)
    /\ UNCHANGED <<quibble, user_auto_increment, discussion, topic, user_choice, kept, user, now, jar, nreq>>

\* UPDATE quibble SET content = NULL WHERE id = ? in removeQuibble
removeQuibble_update(c) ==
    /\ req[c].pc = "rq_update"
    /\ LET r == req[c]
           row == quibble[r.tid.val]
       IN \E fault \in BOOLEAN :
             /\ IF fault
                THEN /\ req' = [req EXCEPT ![c] = InternalError(r)]
                     /\ quibble' = quibble
                ELSE /\ req' = [req EXCEPT ![c] = [Finish(r, 200, "") EXCEPT !.wrote = row.present]]
                     /\ quibble' = IF row.present
                                   THEN [quibble EXCEPT ![r.tid.val].content = NullContent]
                                   ELSE quibble
             /\ free' = free + 1
    /\ UNCHANGED <<user_auto_increment, discussion, topic, user_choice, kept, user, now, jar, nreq>>

\* SELECT access_level FROM user WHERE id = ? in validateAccessLevel, its
\* checks, and addTopic up to beginTransaction
addTopic_validateAccessLevel(c) ==
    /\ req[c].pc = "at_level"
    /\ \E fault \in BOOLEAN :
          LET r == req[c]
              v == ValidateAccessLevel(user[r.userInfo.id], ACCESS_LEVEL_ADMIN)
              r2 == IF fault \/ v = "throw" THEN InternalError(r)
                    ELSE IF v # "" THEN Throw(r, 403, v)
                    ELSE IF r.name = <<>> THEN Throw(r, 400, "NO_TOPIC_NAME")
                    ELSE [r EXCEPT !.pc = "at_begin"]
          IN /\ req' = [req EXCEPT ![c] = r2]
             /\ free' = free + Released(r, r2)
    /\ UNCHANGED <<quibble, user_auto_increment, discussion, topic, user_choice, kept, user, now, jar, nreq>>

\* conn.beginTransaction() in addTopic
addTopic_beginTransaction(c) ==
    /\ req[c].pc = "at_begin"
    /\ \E fault \in BOOLEAN :
          LET r == req[c]
              r2 == IF fault THEN InternalError(r) ELSE [r EXCEPT !.pc = "at_insert"]
          IN /\ req' = [req EXCEPT ![c] = r2]
             /\ free' = free + Released(r, r2)
    /\ UNCHANGED <<quibble, user_auto_increment, discussion, topic, user_choice, kept, user, now, jar, nreq>>

\* INSERT INTO topic (topic_name) in addTopic; the insert waits while another
\* transaction holds an uncommitted row of the same name, and ER_DUP_ENTRY
\* is translated to TOPIC_ALREADY_EXISTS
addTopic_insert(c) ==
    /\ req[c].pc = "at_insert"
    /\ \A d \in Clients \ {c} :
          ~(req[d].pc \in {"at_lastid", "at_commit"} /\ req[d].name = req[c].name)
    /\ \E fault \in BOOLEAN :
          LET r == req[c]
              r2 == IF fault THEN InternalError(r)
                    ELSE IF r.name \in topic THEN ThrowSql(r, "ER_DUP_ENTRY")
                    ELSE [r EXCEPT !.pc = "at_lastid"]
          IN /\ req' = [req EXCEPT ![c] = r2]
             /\ free' = free + Released(r, r2)
    /\ UNCHANGED <<quibble, user_auto_increment, discussion, topic, user_choice, kept, user, now, jar, nreq>>

\* SELECT LAST_INSERT_ID() in addTopic
addTopic_lastInsertId(c) ==
    /\ req[c].pc = "at_lastid"
    /\ \E fault \in BOOLEAN :
          LET r == req[c]
              r2 == IF fault THEN InternalError(r) ELSE [r EXCEPT !.pc = "at_commit"]
          IN /\ req' = [req EXCEPT ![c] = r2]
             /\ free' = free + Released(r, r2)
    /\ UNCHANGED <<quibble, user_auto_increment, discussion, topic, user_choice, kept, user, now, jar, nreq>>

\* conn.commit() in addTopic; when it throws, the catch block's
\* `await conn.rollback()` throws a ReferenceError (conn is not defined)
addTopic_commit(c) ==
    /\ req[c].pc = "at_commit"
    /\ \E fault \in BOOLEAN :
          LET r == req[c]
              r2 == IF fault THEN InternalError(r)
                    ELSE [Finish(r, 201, "") EXCEPT !.wrote = TRUE]
          IN /\ req' = [req EXCEPT ![c] = r2]
             /\ topic' = IF fault THEN topic ELSE topic \cup {r.name}
             /\ free' = free + Released(r, r2)
    /\ UNCHANGED <<quibble, user_auto_increment, discussion, user_choice, kept, user, now, jar, nreq>>

\* conn.beginTransaction() in addDiscussion
addDiscussion_beginTransaction(c) ==
    /\ req[c].pc = "ad_begin"
    /\ \E fault \in BOOLEAN :
          LET r == req[c]
              r2 == IF fault THEN InternalError(r) ELSE [r EXCEPT !.pc = "ad_insert"]
          IN /\ req' = [req EXCEPT ![c] = r2]
             /\ free' = free + Released(r, r2)
    /\ UNCHANGED <<quibble, user_auto_increment, discussion, topic, user_choice, kept, user, now, jar, nreq>>

\* INSERT INTO discussion in addDiscussion; the insert waits while another
\* transaction holds an uncommitted discussion of the same title or an
\* uncommitted row of the topic; ER_NO_REFERENCED_ROW_2 is translated to
\* INVALID_TOPIC_ID and ER_DUP_ENTRY to DISCUSSION_ALREADY_EXISTS, and when
\* both constraints fail the store reports either
addDiscussion_insert(c) ==
    /\ req[c].pc = "ad_insert"
    /\ \A d \in Clients \ {c} :
          /\ ~(req[d].pc \in {"ad_lastid", "ad_commit"} /\ req[d].name = req[c].name)
          /\ ~(req[d].pc \in {"at_lastid", "at_commit"} /\ req[d].name = TopicOfId(req[c].tid.val))
    /\ \E fault \in BOOLEAN, fkFirst \in BOOLEAN :
          LET r == req[c]
              noTopic == TopicOfId(r.tid.val) \notin topic
              dup == \E row \in discussion : row.title = r.name
              r2 == IF fault THEN InternalError(r)
                    ELSE IF noTopic /\ (fkFirst \/ ~dup) THEN ThrowSql(r, "ER_NO_REFERENCED_ROW_2")
                    ELSE IF dup THEN ThrowSql(r, "ER_DUP_ENTRY")
                    ELSE [r EXCEPT !.pc = "ad_lastid"]
          IN /\ req' = [req EXCEPT ![c] = r2]
             /\ free' = free + Released(r, r2)
    /\ UNCHANGED <<quibble, user_auto_increment, discussion, topic, user_choice, kept, user, now, jar, nreq>>

\* SELECT LAST_INSERT_ID() in addDiscussion
addDiscussion_lastInsertId(c) ==
    /\ req[c].pc = "ad_lastid"
    /\ \E fault \in BOOLEAN :
          LET r == req[c]
              r2 == IF fault THEN InternalError(r) ELSE [r EXCEPT !.pc = "ad_commit"]
          IN /\ req' = [req EXCEPT ![c] = r2]
             /\ free' = free + Released(r, r2)
    /\ UNCHANGED <<quibble, user_auto_increment, discussion, topic, user_choice, kept, user, now, jar, nreq>>

\* conn.commit() in addDiscussion; when it throws, the catch block's
\* `await conn.rollback()` throws a ReferenceError (conn is not defined)
addDiscussion_commit(c) ==
    /\ req[c].pc = "ad_commit"
    /\ \E fault \in BOOLEAN :
          LET r == req[c]
              r2 == IF fault THEN InternalError(r)
                    ELSE [Finish(r, 201, "") EXCEPT !.wrote = TRUE]
          IN /\ req' = [req EXCEPT ![c] = r2]
             /\ discussion' = IF fault THEN discussion
                              ELSE discussion \cup
                                   {[title |-> r.name, topic |-> TopicOfId(r.tid.val)]}
             /\ free' = free + Released(r, r2)
    /\ UNCHANGED <<quibble, user_auto_increment, topic, user_choice, kept, user, now, jar, nreq>>

\* SELECT discussion_id FROM choice WHERE id = ? in addUserChoice
addUserChoice_select(c) ==
    /\ req[c].pc = "auc_select"
    /\ \E fault \in BOOLEAN :
          LET r == req[c]
              r2 == IF fault THEN InternalError(r)
                    ELSE IF \A ch \in choice : ch.id # r.tid.val
                         THEN Throw(r, 400, "CHOICE_NOT_FOUND")
                    ELSE [r EXCEPT !.pc = "auc_insert"]
          IN /\ req' = [req EXCEPT ![c] = r2]
             /\ free' = free + Released(r, r2)
    /\ UNCHANGED <<quibble, user_auto_increment, discussion, topic, user_choice, kept, user, now, jar, nreq>>

\* INSERT INTO user_choice in addUserChoice: ER_DUP_ENTRY is translated to
\* USER_ALREADY_VOTED; the insert for a user whose row is gone fails on
\* fk_user_choice_user_id, which the route does not translate
addUserChoice_insert(c) ==
    /\ req[c].pc = "auc_insert"
    /\ \E fault \in BOOLEAN, ch \in {x \in choice : x.id = req[c].tid.val} :
          LET r == req[c]
              row == UserChoiceRow(r, ch)
              r2 == IF fault THEN InternalError(r)
                    ELSE IF DuplicateEntry(row) THEN ThrowSql(r, "ER_DUP_ENTRY")
                    ELSE IF ~user[row.user_id].present THEN ThrowSql(r, "ER_NO_REFERENCED_ROW_2")
                    ELSE [Finish(r, 201, "") EXCEPT !.wrote = TRUE]
          IN /\ req' = [req EXCEPT ![c] = r2]
             /\ user_choice' = IF r2.status = 201 THEN user_choice \cup {row} ELSE user_choice
             /\ free' = free + Released(r, r2)
    /\ UNCHANGED <<quibble, user_auto_increment, discussion, topic, kept, user, now, jar, nreq>>

Next ==
    \/ Tick
    \/ \E c \in Clients :
          \/ Receive(c)
          \/ ReceiveOpen(c)
          \/ Deliver(c)
          \/ jwtVerifyStrict(c)
          \/ jwtVerifySoft(c)
          \/ createAccessToken_getConnection(c)
          \/ createAccessToken_query(c)
          \/ resolveRouteHandler(c)
          \/ changeAccessLevel_select(c)
          \/ changeAccessLevel_update(c)
          \/ changeUsername_select(c)
          \/ changeUsername_update(c)
          \/ removeUser_select(c)
          \/ removeUser_delete(c)
          \/ login_select(c)
          \/ login_token(c)

Spec == Init /\ [][Next]_vars

(***************************************************************************)
(* SpecTopic: requests of the two clients overlap.  The clients change     *)
(* access levels, remove users, add topics and discussions, ask who they   *)
(* are and renew their access tokens.                                      *)
(***************************************************************************)
ReceiveTopic(c) ==
    /\ req[c].pc = "idle"
    /\ nreq < MaxReq
    /\ nreq' = nreq + 1
    /\ \/ \E name \in TopicNameInputs :
             req' = [req EXCEPT ![c] = NewReq(jar[c], "addTopic", NoParam, name, AbsentLevel, "")]
       \/ \E title \in DiscussionTitleInputs, topicId \in TopicIdInputs :
             req' = [req EXCEPT ![c] =
                       NewReq(jar[c], "addDiscussion", topicId, title, AbsentLevel, "")]
       \/ req' = [req EXCEPT ![c] = NewReq(jar[c], "getInfo", NoParam, <<>>, AbsentLevel, "")]
       \/ \E i \in UserIds, n \in {ACCESS_LEVEL_USER, ACCESS_LEVEL_ADMIN} :
             req' = [req EXCEPT ![c] =
                       NewReq(jar[c], "changeAccessLevel", [isInt |-> TRUE, val |-> i], <<>>,
                              [kind |-> "num", val |-> n], "")]
       \/ \E i \in UserIds :
             req' = [req EXCEPT ![c] =
                       NewReq(jar[c], "removeUser", [isInt |-> TRUE, val |-> i], <<>>,
                              AbsentLevel, "")]
       \/ req' = [req EXCEPT ![c] =
                    NewReq(jar[c], "renewAccessToken", NoParam, <<>>, AbsentLevel, "")]
    /\ UNCHANGED <<quibble, user_auto_increment, discussion, topic, user_choice, kept, user, now, jar, free>>

NextTopic ==
    \/ Tick
    \/ \E c \in Clients :
          \/ ReceiveTopic(c)
          \/ Deliver(c)
          \/ jwtVerifyStrict(c)
          \/ jwtVerifySoft(c)
          \/ createAccessToken_getConnection(c)
          \/ createAccessToken_query(c)
          \/ resolveRouteHandler(c)
          \/ changeAccessLevel_select(c)
          \/ changeAccessLevel_update(c)
          \/ removeUser_select(c)
          \/ removeUser_delete(c)
          \/ addTopic_validateAccessLevel(c)
          \/ addTopic_beginTransaction(c)
          \/ addTopic_insert(c)
          \/ addTopic_lastInsertId(c)
          \/ addTopic_commit(c)
          \/ addDiscussion_beginTransaction(c)
          \/ addDiscussion_insert(c)
          \/ addDiscussion_lastInsertId(c)
          \/ addDiscussion_commit(c)

SpecTopic == Init /\ [][NextTopic]_vars

(***************************************************************************)
(* SpecVote: two discussions with three choices exist.  The two clients    *)
(* are logged in, as the same user or as different users; their requests   *)
(* overlap.  They vote and remove users.                                   *)
(***************************************************************************)
InitVote ==
    /\ \E lv \in InitLevels :
           user = [i \in UserIds |-> IF i <= 2 THEN UserRow(i, lv[i]) ELSE NoRow]
    /\ now = 0
    /\ \E u \in [Clients -> 1..2] :
          jar = [c \in Clients |->
                   [access |-> JwtSign(u[c], user[u[c]].username, user[u[c]].access_level,
                                       0, JWT_ACCESS_EXPIRE_TIME),
                    refresh |-> JwtSign(u[c], <<>>, 0, 0, JWT_REFRESH_EXPIRE_TIME)]]
    /\ req = [c \in Clients |-> IdleReq]
    /\ free = DB_CONN_LIMIT
    /\ nreq = 0
    /\ topic = {<<"t">>}
    /\ discussion = {[title |-> ch.discussion_id, topic |-> <<"t">>] : ch \in choice}
    /\ user_choice = {}
    /\ kept = jar
    /\ quibble = [q \in QuibbleIds |-> NoQuibble]
    /\ user_auto_increment = 3

ReceiveVote(c) ==
    /\ req[c].pc = "idle"
    /\ nreq < MaxReq
    /\ nreq' = nreq + 1
    /\ \/ \E id \in ChoiceIdParams :
             req' = [req EXCEPT ![c] = NewReq(jar[c], "addUserChoice", id, <<>>, AbsentLevel, "")]
       \/ \E i \in UserIds :
             req' = [req EXCEPT ![c] =
                       NewReq(jar[c], "removeUser", [isInt |-> TRUE, val |-> i], <<>>,
                              AbsentLevel, "")]
    /\ UNCHANGED <<quibble, user_auto_increment, discussion, topic, user_choice, kept, user, now, jar, free>>

NextVote ==
    \/ Tick
    \/ \E c \in Clients :
          \/ ReceiveVote(c)
          \/ Deliver(c)
          \/ jwtVerifyStrict(c)
          \/ createAccessToken_getConnection(c)
          \/ createAccessToken_query(c)
          \/ resolveRouteHandler(c)
          \/ removeUser_select(c)
          \/ removeUser_delete(c)
          \/ addUserChoice_select(c)
          \/ addUserChoice_insert(c)

SpecVote == InitVote /\ [][NextVote]_vars

(***************************************************************************)
(* SpecSession: the requests do not overlap.  Each client has kept a copy  *)
(* of the two cookies its first login has set (kept), and sends to the     *)
(* routes behind a gate either the cookies of its jar or that copy; the    *)
(* clients log in and out, and remove users.                               *)
(***************************************************************************)
ReceiveSession(c) ==
    /\ Quiet
    /\ nreq < MaxReq
    /\ nreq' = nreq + 1
    /\ \/ \E cookies \in {jar[c], kept[c]}, route \in {"getInfo", "renewAccessToken"} :
             req' = [req EXCEPT ![c] = NewReq(cookies, route, NoParam, <<>>, AbsentLevel, "")]
       \/ \E i \in UserIds :
             req' = [req EXCEPT ![c] =
                       NewReq(jar[c], "removeUser", [isInt |-> TRUE, val |-> i], <<>>,
                              AbsentLevel, "")]
       \/ \E pw \in PasswordInputs :
             req' = [req EXCEPT ![c] =
                       NewReq(jar[c], "login", NoParam, InitUsername(InitUser(c)), AbsentLevel, pw)]
       \/ req' = [req EXCEPT ![c] = NewReq(jar[c], "logout", NoParam, <<>>, AbsentLevel, "")]
    /\ UNCHANGED <<quibble, user_auto_increment, discussion, topic, user_choice, kept, user, now, jar, free>>

NextSession ==
    \/ Tick
    \/ \E c \in Clients :
          \/ ReceiveSession(c)
          \/ Deliver(c)
          \/ jwtVerifyStrict(c)
          \/ jwtVerifySoft(c)
          \/ createAccessToken_getConnection(c)
          \/ createAccessToken_query(c)
          \/ resolveRouteHandler(c)
          \/ removeUser_select(c)
          \/ removeUser_delete(c)
          \/ login_select(c)
          \/ login_token(c)

SpecSession == Init /\ [][NextSession]_vars

(***************************************************************************)
(* SpecLifecycle: one client that is not logged in walks through the       *)
(* session lifecycle, one request after the other and each with the        *)
(* cookies its jar holds: login, getInfo, logout, getInfo.  It goes on to  *)
(* getInfo and logout only when the login has set its cookies, and to the  *)
(* last getInfo only when its jar is empty again.                          *)
(***************************************************************************)
Lifecycle == <<"login", "getInfo", "logout", "getInfo">>

LifecycleClient == "c1"

InitLifecycle ==
    /\ \E lv \in InitLevels :
           user = [i \in UserIds |-> IF i <= 2 THEN UserRow(i, lv[i]) ELSE NoRow]
    /\ now = 0
    /\ jar = [c \in Clients |-> [access |-> NoToken, refresh |-> NoToken]]
    /\ req = [c \in Clients |-> IdleReq]
    /\ free = DB_CONN_LIMIT
    /\ nreq = 0
    /\ topic = {}
    /\ user_choice = {}
    /\ kept = jar
    /\ quibble = [q \in QuibbleIds |-> NoQuibble]
    /\ user_auto_increment = 3
    /\ discussion = {}

ReceiveLifecycle(c) ==
    /\ c = LifecycleClient
    /\ Quiet
    /\ nreq < Len(Lifecycle)
    /\ nreq' = nreq + 1
    /\ nreq \in {1, 2} => jar[c].refresh.kind = "jwt"
    /\ nreq = 3 => jar[c] = [access |-> NoToken, refresh |-> NoToken]
    /\ IF Lifecycle[nreq + 1] = "login"
       THEN \E name \in UsernameInputs, pw \in PasswordInputs :
               req' = [req EXCEPT ![c] = NewReq(jar[c], "login", NoParam, name, AbsentLevel, pw)]
       ELSE req' = [req EXCEPT ![c] =
                      NewReq(jar[c], Lifecycle[nreq + 1], NoParam, <<>>, AbsentLevel, "")]
    /\ UNCHANGED <<quibble, user_auto_increment, discussion, topic, user_choice, kept, user, now, jar, free>>

NextLifecycle ==
    \/ Tick
    \/ \E c \in Clients :
          \/ ReceiveLifecycle(c)
          \/ Deliver(c)
          \/ jwtVerifySoft(c)
          \/ createAccessToken_getConnection(c)
          \/ createAccessToken_query(c)
          \/ resolveRouteHandler(c)
          \/ login_select(c)
          \/ login_token(c)

SpecLifecycle == InitLifecycle /\ [][NextLifecycle]_vars

(***************************************************************************)
(* SpecRegister: the store holds user 1 and, in some runs, user 2; the     *)
(* first client is logged in as user 1, the second as a stored user or not *)
(* at all.  The requests of the two clients overlap.  They register users, *)
(* log in, renew access tokens, change usernames and access levels and     *)
(* remove users.                                                           *)
(***************************************************************************)
SessionOf(i) ==
    IF i = 0 THEN [access |-> NoToken, refresh |-> NoToken]
    ELSE [access |-> JwtSign(i, user[i].username, user[i].access_level, 0, JWT_ACCESS_EXPIRE_TIME),
          refresh |-> JwtSign(i, <<>>, 0, 0, JWT_REFRESH_EXPIRE_TIME)]

InitRegister ==
    /\ \E lv \in InitLevels, n \in 1..2 :
           /\ user = [i \in UserIds |-> IF i <= n THEN UserRow(i, lv[i]) ELSE NoRow]
           /\ user_auto_increment = n + 1
           /\ \E u \in 0..n : jar = [c \in Clients |-> IF c = "c1" THEN SessionOf(1) ELSE SessionOf(u)]
    /\ now = 0
    /\ req = [c \in Clients |-> IdleReq]
    /\ free = DB_CONN_LIMIT
    /\ nreq = 0
    /\ topic = {}
    /\ user_choice = {}
    /\ kept = jar
    /\ discussion = {}
    /\ quibble = [q \in QuibbleIds |-> NoQuibble]

\* body['access-level'] in SpecRegister: the numbers 1, 3 and 4 and the
\* string "10"
RegisterLevelInputs ==
    {[kind |-> "num", val |-> n] : n \in {ACCESS_LEVEL_USER, ACCESS_LEVEL_ADMIN, ACCESS_LEVEL_DEVELOPER}}
    \cup {[kind |-> "str", val |-> 10]}

\* registrations in flight
Registering == {c \in Clients : req[c].route = "addUser" /\ req[c].pc # "idle"}

ReceiveRegister(c) ==
    /\ req[c].pc = "idle"
    /\ nreq < MaxReq
    /\ nreq' = nreq + 1
    /\ \/ /\ user_auto_increment + Cardinality(Registering) <= MaxUserId
          /\ \E name \in {<<"a">>, <<"c">>}, pw \in {"", "pw2"} :
                req' = [req EXCEPT ![c] = NewReq(jar[c], "addUser", NoParam, name, AbsentLevel, pw)]
       \/ \E name \in {<<"a">>, <<"c">>} :
             req' = [req EXCEPT ![c] = NewReq(jar[c], "login", NoParam, name, AbsentLevel, "pw2")]
       \/ req' = [req EXCEPT ![c] =
                    NewReq(jar[c], "renewAccessToken", NoParam, <<>>, AbsentLevel, "")]
       \/ \E i \in UserIds, lvl \in RegisterLevelInputs :
             req' = [req EXCEPT ![c] =
                       NewReq(jar[c], "changeAccessLevel", [isInt |-> TRUE, val |-> i], <<>>, lvl, "")]
       \/ \E i \in UserIds, name \in {<<"a">>, <<"c">>} :
             req' = [req EXCEPT ![c] =
                       NewReq(jar[c], "changeUsername", [isInt |-> TRUE, val |-> i], name,
                              AbsentLevel, "")]
       \/ \E i \in UserIds :
             req' = [req EXCEPT ![c] =
                       NewReq(jar[c], "removeUser", [isInt |-> TRUE, val |-> i], <<>>,
                              AbsentLevel, "")]
    /\ UNCHANGED <<quibble, user_auto_increment, discussion, topic, user_choice, kept, user, now, jar, free>>

NextRegister ==
    \/ Tick
    \/ \E c \in Clients :
          \/ ReceiveRegister(c)
          \/ Deliver(c)
          \/ jwtVerifyStrict(c)
          \/ createAccessToken_getConnection(c)
          \/ createAccessToken_query(c)
          \/ resolveRouteHandler(c)
          \/ addUser_insert(c)
          \/ login_select(c)
          \/ login_token(c)
          \/ changeAccessLevel_select(c)
          \/ changeAccessLevel_update(c)
          \/ changeUsername_select(c)
          \/ changeUsername_update(c)
          \/ removeUser_select(c)
          \/ removeUser_delete(c)

SpecRegister == InitRegister /\ [][NextRegister]_vars

(***************************************************************************)
(* SpecQuibble: quibbles exist, with their text or already removed.  The   *)
(* two clients are logged in, as the same user or as different users, of   *)
(* any level; their requests overlap.  They remove quibbles and change     *)
(* access levels.                                                          *)
(***************************************************************************)
\* the level pairs (user 1, user 2) the store may hold
QuibbleLevels == InitLevels \cup {<<ACCESS_LEVEL_MODERATOR, ACCESS_LEVEL_USER>>}

InitQuibble ==
    /\ \E lv \in QuibbleLevels :
           user = [i \in UserIds |-> IF i <= 2 THEN UserRow(i, lv[i]) ELSE NoRow]
    /\ user_auto_increment = 3
    /\ now = 0
    /\ \E u \in [Clients -> 1..2] : jar = [c \in Clients |-> SessionOf(u[c])]
    /\ req = [c \in Clients |-> IdleReq]
    /\ free = DB_CONN_LIMIT
    /\ nreq = 0
    /\ topic = {<<"t">>}
    /\ discussion = {[title |-> <<"d">>, topic |-> <<"t">>]}
    /\ user_choice = {}
    /\ kept = jar
    /\ \E rows \in [QuibbleIds -> {NoQuibble, QuibbleRow(2, "q"),
                                    [QuibbleRow(2, "q") EXCEPT !.content = NullContent]}] :
           /\ quibble = rows
           /\ rows[1].present

ReceiveQuibble(c) ==
    /\ req[c].pc = "idle"
    /\ nreq < MaxReq
    /\ nreq' = nreq + 1
    /\ \/ \E id \in QuibbleIdParams :
             req' = [req EXCEPT ![c] = NewReq(jar[c], "removeQuibble", id, <<>>, AbsentLevel, "")]
       \/ \E n \in {ACCESS_LEVEL_USER, ACCESS_LEVEL_ADMIN} :
             req' = [req EXCEPT ![c] =
                       NewReq(jar[c], "changeAccessLevel", [isInt |-> TRUE, val |-> 2], <<>>,
                              [kind |-> "num", val |-> n], "")]
    /\ UNCHANGED <<quibble, user_auto_increment, discussion, topic, user_choice, kept, user, now, jar, free>>

NextQuibble ==
    \/ Tick
    \/ \E c \in Clients :
          \/ ReceiveQuibble(c)
          \/ Deliver(c)
          \/ jwtVerifyStrict(c)
          \/ createAccessToken_getConnection(c)
          \/ createAccessToken_query(c)
          \/ resolveRouteHandler(c)
          \/ removeQuibble_validateAccessLevel(c)
          \/ removeQuibble_select(c)
          \/ removeQuibble_update(c)
          \/ changeAccessLevel_select(c)
          \/ changeAccessLevel_update(c)

SpecQuibble == InitQuibble /\ [][NextQuibble]_vars

(***************************************************************************)
(* SpecGate: the two gates side by side.  Both clients hold the cookies of *)
(* one login of one user, whose row the store still holds or has lost.     *)
(* The first client sends its requests to a route behind jwtVerifyStrict,  *)
(* the second to a route behind jwtVerifySoft; in each cookie slot a       *)
(* request carries the cookie of the jar, no cookie or a string that is no *)
(* signed token, and the cookies expire as time passes.  The requests      *)
(* overlap.                                                                *)
(***************************************************************************)
InitGate ==
    /\ \E lv \in InitLevels, u \in 1..2, gone \in BOOLEAN :
           LET rows == [i \in UserIds |-> IF i <= 2 THEN UserRow(i, lv[i]) ELSE NoRow]
               session == [access |-> JwtSign(u, rows[u].username, rows[u].access_level,
                                              0, JWT_ACCESS_EXPIRE_TIME),
                           refresh |-> JwtSign(u, <<>>, 0, 0, JWT_REFRESH_EXPIRE_TIME)]
           IN /\ user = IF gone THEN [rows EXCEPT ![u] = NoRow] ELSE rows
              /\ jar = [c \in Clients |-> session]
    /\ user_auto_increment = 3
    /\ now = 0
    /\ req = [c \in Clients |-> IdleReq]
    /\ free = DB_CONN_LIMIT
    /\ nreq = 0
    /\ topic = {}
    /\ discussion = {}
    /\ user_choice = {}
    /\ kept = jar
    /\ quibble = [q \in QuibbleIds |-> NoQuibble]

\* the route each client sends its requests to
GateRoute(c) == IF c = "c1" THEN "renewAccessToken" ELSE "getInfo"

ReceiveGate(c) ==
    /\ req[c].pc = "idle"
    /\ nreq < MaxReq
    /\ nreq' = nreq + 1
    /\ \E a \in {jar[c].access, NoToken, BadToken}, f \in {jar[c].refresh, NoToken, BadToken} :
          req' = [req EXCEPT ![c] =
                    NewReq([access |-> a, refresh |-> f], GateRoute(c), NoParam, <<>>, AbsentLevel, "")]
    /\ UNCHANGED <<quibble, user_auto_increment, discussion, topic, user_choice, kept, user, now, jar, free>>

NextGate ==
    \/ Tick
    \/ \E c \in Clients :
          \/ ReceiveGate(c)
          \/ Deliver(c)
          \/ jwtVerifyStrict(c)
          \/ jwtVerifySoft(c)
          \/ createAccessToken_getConnection(c)
          \/ createAccessToken_query(c)
          \/ resolveRouteHandler(c)

SpecGate == InitGate /\ [][NextGate]_vars

(***************************************************************************)
(* SpecPool: a pool of one connection or more, and no failure of the pool  *)
(* or the store.  The clients ask who they are, log in and add topics,     *)
(* with the access token of their jar or without one, so that the gate     *)
(* renews it; their requests overlap.  The event loop runs every handler   *)
(* that can go on, and the pool serves the requests that wait for a        *)
(* connection in their order.                                              *)
(***************************************************************************)
PoolSizes == 1..DB_CONN_LIMIT

InitPool ==
    /\ \E lv \in InitLevels :
           user = [i \in UserIds |-> IF i <= 2 THEN UserRow(i, lv[i]) ELSE NoRow]
    /\ user_auto_increment = 3
    /\ now = 0
    /\ jar = [c \in Clients |-> SessionOf(InitUser(c))]
    /\ req = [c \in Clients |-> IdleReq]
    /\ free \in PoolSizes
    /\ nreq = 0
    /\ topic = {}
    /\ discussion = {}
    /\ user_choice = {}
    /\ kept = jar
    /\ quibble = [q \in QuibbleIds |-> NoQuibble]

ReceivePool(c) ==
    /\ req[c].pc = "idle"
    /\ nreq < MaxReq
    /\ nreq' = nreq + 1
    /\ \E a \in {jar[c].access, NoToken} :
          LET cookies == [access |-> a, refresh |-> jar[c].refresh]
          IN \/ req' = [req EXCEPT ![c] = NewReq(cookies, "getInfo", NoParam, <<>>, AbsentLevel, "")]
             \/ req' = [req EXCEPT ![c] = NewReq(cookies, "addTopic", NoParam, <<"t">>, AbsentLevel, "")]
             \/ req' = [req EXCEPT ![c] =
                          NewReq(cookies, "login", NoParam, InitUsername(InitUser(c)), AbsentLevel,
                                 InitPassword(InitUser(c)))]
    /\ UNCHANGED <<quibble, user_auto_increment, discussion, topic, user_choice, kept, user, now, jar, free>>

\* the step of c meets no failure of the pool or the store
NoFault(c) ==
    /\ req'[c].status # 500
    /\ \A i \in 1..Len(req'[c].glog) : req'[c].glog[i] # "storeFault"

\* dbPool.getConnection() resolving for c
GetConnection(c) ==
    /\ createAccessToken_getConnection(c) \/ resolveRouteHandler(c)
    /\ NoFault(c)

\* the other continuations of the request of c
HandlerStep(c) ==
    /\ \/ jwtVerifyStrict(c)
       \/ jwtVerifySoft(c)
       \/ createAccessToken_query(c)
       \/ login_select(c)
       \/ login_token(c)
       \/ addTopic_validateAccessLevel(c)
       \/ addTopic_beginTransaction(c)
       \/ addTopic_insert(c)
       \/ addTopic_lastInsertId(c)
       \/ addTopic_commit(c)
    /\ NoFault(c)

NextPool ==
    \/ Tick
    \/ \E c \in Clients :
          \/ ReceivePool(c)
          \/ Deliver(c)
          \/ GetConnection(c)
          \/ HandlerStep(c)

SpecPool ==
    /\ InitPool
    /\ [][NextPool]_vars
    /\ \A c \in Clients : WF_vars(HandlerStep(c)) /\ SF_vars(GetConnection(c))

(***************************************************************************)
(* Vocabulary of the properties.                                           *)
(***************************************************************************)
\* how often the gate did e
RECURSIVE Count(_, _)
Count(log, e) ==
    IF log = <<>> THEN 0
    ELSE (IF Head(log) = e THEN 1 ELSE 0) + Count(Tail(log), e)

\* the gate of the request has run to its end
GateOver(r) == r.glog # <<>> /\ r.pc \notin {"gate", "cat_conn", "cat_query"}

\* the request has an identity (res.locals.userInfo is set)
HasIdentity(r) == r.userInfo.kind = "jwt"

\* an answered change-access-level request of an identity
AccessLevelRequest(r) == r.route = "changeAccessLevel" /\ HasIdentity(r)

\* the requested value, as a number, is greater than the identity's level
AsksAboveOwnLevel(r) ==
    /\ r.lvl.kind # "absent"
    /\ IF r.lvl.kind = "frac" THEN r.lvl.val >= r.userInfo.access_level
       ELSE r.lvl.val > r.userInfo.access_level

\* the response of r is status with error code
Answered(r, status, code) == r.pc = "done" /\ r.status = status /\ r.code = code

C1_Rejection(r) ==
    /\ r.pc \in {"route", "done"}
    /\ ~r.wrote
    /\ r.pc = "done" /\ r.status # 500 =>
          /\ <<r.status, r.code>> \in {<<403, "UNAUTHORIZED">>, <<400, "INVALID_USER_ID">>,
                                        <<400, "INVALID_ACCESS_LEVEL">>,
                                        <<403, "UNAUTHORIZED_ACCESS_LEVEL">>}
          /\ r.code = "UNAUTHORIZED" <=> r.userInfo.access_level < ACCESS_LEVEL_ADMIN
          /\ (r.userInfo.access_level >= ACCESS_LEVEL_ADMIN /\ r.tid.isInt
                /\ r.lvl.kind = "num" /\ r.lvl.val \in AccessTable)
             => r.code = "UNAUTHORIZED_ACCESS_LEVEL"

UsernameRequest(r) == r.route = "changeUsername" /\ HasIdentity(r) /\ r.tid.isInt

SelfOrSuperior(r, row) ==
    \/ r.tid.val = r.userInfo.id
    \/ /\ r.userInfo.access_level >= ACCESS_LEVEL_ADMIN
       /\ r.userInfo.access_level > row.access_level

C2_Answer(r, row, u, u2) ==
    LET valid == ValidateUsername(r.name) = ""
        auth == SelfOrSuperior(r, row)
    IN /\ r.status = 200 =>
             /\ valid /\ auth /\ r.wrote
             /\ u2 = [u EXCEPT ![r.tid.val].username = r.name]
       /\ r.status # 200 => u2 = u
       /\ r.status # 500 =>
             /\ (valid /\ auth) => r.status = 200
             /\ (valid /\ ~auth) => (r.status = 403 /\ r.code = "UNAUTHORIZED")
             /\ ~valid => (r.status = 400 /\ r.code = ValidateUsername(r.name))

GateEnds(c) == ~GateOver(req[c]) /\ GateOver(req'[c])

\* the request is on the cold path with a refresh token that verifies
RefreshVerifies(r) == ~JwtVerifies(r.cookies.access, now) /\ JwtVerifies(r.cookies.refresh, now)

\* the store lookup of the renewal failed (no connection, or a failed query)
StoreFault(r) == Count(r.glog, "storeFault") > 0

\* the access claim createAccessToken signs from the row of id at the time t
FreshClaim(id, row, t) == JwtSign(id, row.username, row.access_level, t, JWT_ACCESS_EXPIRE_TIME)

\* the gate's 401 with its error code
Rejected401(r, code) == Answered(r, 401, code) /\ Count(r.glog, "next") = 0

\* both cookies are cleared / neither cookie is touched
BothCleared(r) == r.accessOp = "clear" /\ r.refreshOp = "clear"
Untouched(r) == r.accessOp = "keep" /\ r.refreshOp = "keep"

(***************************************************************************)
(* C3 as stated: when the access token of a Strict request does not verify *)
(* and the refresh token verifies for a user the store holds, the gate     *)
(* ends authenticated, and the identity and the new access claim carry the *)
(* username and the access level the store holds at that step.             *)
(***************************************************************************)
C3_Renewed(r, id, row, t) ==
    /\ r.pc = "route" /\ Count(r.glog, "next") = 1
    /\ r.userInfo = FreshClaim(id, row, t)
    /\ r.accessOp = "set" /\ r.newAccess = FreshClaim(id, row, t)

C4_StrictFailure ==
    \A c \in Clients :
        LET r == req[c]
        IN r.route \in StrictRoutes =>
              /\ Count(r.glog, "next") + Count(r.glog, "send401") <= 1
              /\ GateOver(r) => Count(r.glog, "next") + Count(r.glog, "send401") = 1
              /\ r.status = 401 <=> Count(r.glog, "send401") = 1
              /\ Count(r.glog, "next") = 1 <=> (GateOver(r) /\ HasIdentity(r))
              /\ (GateOver(r) /\ ~HasIdentity(r)) =>
                    IF CookiePresent(r.cookies.refresh)
                    THEN /\ Rejected401(r, "USER_LOGIN_ENDED") /\ BothCleared(r)
                         /\ Count(r.glog, "clearCookie") = 1
                    ELSE /\ Rejected401(r, "USER_NOT_LOGGED_IN") /\ Untouched(r)
                         /\ Count(r.glog, "clearCookie") = 0

\* a Strict request whose refresh_token cookie did not verify was answered
\* USER_LOGIN_ENDED
C4_Witness ==
    \E c \in Clients :
        /\ req[c].route \in StrictRoutes
        /\ CookiePresent(req[c].cookies.refresh) /\ ~JwtVerifies(req[c].cookies.refresh, now)
        /\ Rejected401(req[c], "USER_LOGIN_ENDED") /\ BothCleared(req[c])

(***************************************************************************)
(* C5: in both gates the verification of the access token is the first     *)
(* thing the gate does: it comes before the refresh token is examined and  *)
(* before the store is asked.  When the access token verifies, the gate    *)
(* does nothing but verify it and call the handler: the identity is the    *)
(* token's claim, the refresh token is not examined, no connection is      *)
(* taken, no query is made, and no cookie is set or cleared.               *)
(***************************************************************************)
GateRoutes == StrictRoutes \cup SoftRoutes

C5_AccessFirst ==
    \A c \in Clients :
        LET r == req[c]
        IN (r.route \in GateRoutes /\ r.glog # <<>>) =>
              /\ r.glog[1] = "verifyAccess"
              /\ Count(r.glog, "verifyAccess") = 1
              /\ \A i \in 1..Len(r.glog) :
                    r.glog[i] \in {"getConnection", "query"}
                    => \E j \in 1..(i - 1) : r.glog[j] = "verifyRefresh"
              /\ JwtVerifies(r.cookies.access, now) =>
                    /\ r.glog = <<"verifyAccess", "next">>
                    /\ r.userInfo = r.cookies.access
                    /\ Untouched(r) /\ r.newAccess = NoToken

\* a request that carries a refresh_token cookie went through the gate on
\* its access token alone
C5_Witness ==
    \E c \in Clients :
        /\ req[c].route \in GateRoutes /\ GateOver(req[c])
        /\ JwtVerifies(req[c].cookies.access, now)
        /\ CookiePresent(req[c].cookies.refresh)
        /\ req[c].glog = <<"verifyAccess", "next">>

(***************************************************************************)
(* C6: jwtVerifySoft never answers the request itself and calls the next   *)
(* handler exactly once, whatever the cookies and the store are; the       *)
(* request has an identity only when its access token verified or the      *)
(* renewal issued a new one.                                               *)
(***************************************************************************)
C6_SoftForwards ==
    \A c \in Clients :
        LET r == req[c]
        IN r.route \in SoftRoutes =>
              /\ Count(r.glog, "send401") = 0
              /\ Count(r.glog, "next") = IF GateOver(r) THEN 1 ELSE 0
              /\ ~GateOver(r) => (r.status = 0 /\ ~HasIdentity(r))
              /\ HasIdentity(r) =>
                    \/ JwtVerifies(r.cookies.access, now) /\ r.userInfo = r.cookies.access
                    \/ /\ RefreshVerifies(r) /\ Count(r.glog, "setAccess") = 1
                       /\ r.userInfo = r.newAccess /\ r.userInfo.id = r.cookies.refresh.id

\* a Soft request whose refresh token was rejected has reached the handler
\* without an identity
C6_Witness ==
    \E c \in Clients :
        /\ req[c].route \in SoftRoutes /\ req[c].pc = "route"
        /\ CookiePresent(req[c].cookies.refresh)
        /\ ~HasIdentity(req[c]) /\ Count(req[c].glog, "next") = 1

(***************************************************************************)
(* C7 as stated: when jwtVerifySoft ends without an identity, it has       *)
(* cleared the two cookies if the request carried a refresh_token cookie   *)
(* that does not verify, and has touched no cookie in every other case.    *)
(***************************************************************************)
C7_AsStated ==
    \A c \in Clients :
        LET r == req[c]
        IN (r.route \in SoftRoutes /\ r.pc = "route" /\ ~HasIdentity(r)) =>
              IF CookiePresent(r.cookies.refresh) /\ ~JwtVerifies(r.cookies.refresh, now)
              THEN Count(r.glog, "clearCookie") = 1 /\ BothCleared(r)
              ELSE Count(r.glog, "clearCookie") = 0 /\ Untouched(r)

(***************************************************************************)
(* C8: in both gates the access_token cookie is set exactly once in a      *)
(* request the gate authenticates by renewal, and never in a request whose *)
(* access token verified or that the gate leaves without an identity.      *)
(***************************************************************************)
RenewedRequest(r) == HasIdentity(r) /\ ~JwtVerifies(r.cookies.access, now)

C8_RenewalOnce ==
    \A c \in Clients :
        LET r == req[c]
        IN r.route \in GateRoutes =>
              /\ ~GateOver(r) => Count(r.glog, "setAccess") = 0
              /\ GateOver(r) =>
                    /\ Count(r.glog, "setAccess") = IF RenewedRequest(r) THEN 1 ELSE 0
                    /\ r.accessOp = "set" <=> RenewedRequest(r)
                    /\ RenewedRequest(r) => (r.newAccess = r.userInfo /\ RefreshVerifies(r))

\* the gate has authenticated a request by renewal
C8_Witness ==
    \E c \in Clients :
        /\ req[c].route \in GateRoutes /\ GateOver(req[c]) /\ RenewedRequest(req[c])
        /\ Count(req[c].glog, "setAccess") = 1 /\ req[c].accessOp = "set"

(***************************************************************************)
(* C9: when the refresh token verifies and the store holds no user with    *)
(* its id, the step that ends the gate attaches no identity and sets no    *)
(* access_token cookie; jwtVerifyStrict answers 401 USER_LOGIN_ENDED       *)
(* without calling the handler, jwtVerifySoft calls the handler.           *)
(***************************************************************************)
C9_VanishedUser ==
    [][ \A c \in Clients :
           (req'[c].route \in GateRoutes /\ GateEnds(c) /\ RefreshVerifies(req'[c])
              /\ ~user[req'[c].cookies.refresh.id].present)
           => /\ ~HasIdentity(req'[c])
              /\ Count(req'[c].glog, "setAccess") = 0
              /\ req'[c].accessOp # "set" /\ req'[c].newAccess = NoToken
              /\ IF req'[c].route \in StrictRoutes
                 THEN Rejected401(req'[c], "USER_LOGIN_ENDED") /\ BothCleared(req'[c])
                 ELSE req'[c].pc = "route" /\ Count(req'[c].glog, "next") = 1
      ]_vars

\* the lookup of a renewal has found no user, and jwtVerifyStrict has
\* answered 401
C9_Witness ==
    \E c \in Clients :
        /\ req[c].route \in StrictRoutes /\ RefreshVerifies(req[c])
        /\ ~user[req[c].cookies.refresh.id].present
        /\ Count(req[c].glog, "query") = 1 /\ ~StoreFault(req[c])
        /\ Rejected401(req[c], "USER_LOGIN_ENDED")

(***************************************************************************)
(* Vocabulary of C10: a request of a level-2 identity to set the access    *)
(* level of another user to 3.                                             *)
(***************************************************************************)
ModeratorAsksAdmin(r) ==
    /\ AccessLevelRequest(r)
    /\ r.userInfo.access_level = ACCESS_LEVEL_MODERATOR
    /\ r.tid.isInt /\ r.tid.val # r.userInfo.id
    /\ r.lvl = [kind |-> "num", val |-> ACCESS_LEVEL_ADMIN]

(***************************************************************************)
(* C10 as stated: a request of a level-2 identity to set another user's    *)
(* access level to 3 is answered with the error code                       *)
(* UNAUTHORIZED_ACCESS_LEVEL and writes nothing (a request that could get  *)
(* no connection aside).                                                   *)
(***************************************************************************)
C10_AsStated ==
    \A c \in Clients :
        (ModeratorAsksAdmin(req[c]) /\ req[c].pc = "done" /\ req[c].status # 500)
        => (req[c].code = "UNAUTHORIZED_ACCESS_LEVEL" /\ ~req[c].wrote)

(***************************************************************************)
(* C10, amended: a request of a level-2 identity to set another user's     *)
(* access level to 3 is rejected by the minimum-level gate, which runs     *)
(* before the non-escalation check: it is answered 403 UNAUTHORIZED (500   *)
(* when no connection could be had), it reaches no query, and no stored    *)
(* row changes.  UNAUTHORIZED_ACCESS_LEVEL is answered only to identities  *)
(* of admin level or above.                                                *)
(***************************************************************************)
C10_MinimumLevelFirst ==
    [][ \A c \in Clients :
           /\ ModeratorAsksAdmin(req'[c]) =>
                 /\ req'[c].pc \in {"route", "done"}
                 /\ req'[c] # req[c] => user' = user
                 /\ req'[c].pc = "done" =>
                       /\ ~req'[c].wrote
                       /\ \/ Answered(req'[c], 403, "UNAUTHORIZED")
                          \/ Answered(req'[c], 500, "INTERNAL_SERVER_ERROR")
           /\ (AccessLevelRequest(req'[c]) /\ req'[c].code = "UNAUTHORIZED_ACCESS_LEVEL")
              => req'[c].userInfo.access_level >= ACCESS_LEVEL_ADMIN
      ]_vars

\* a level-2 identity has asked for level 3 for another user and was
\* answered 403 UNAUTHORIZED
C10_Witness ==
    \E c \in Clients :
        ModeratorAsksAdmin(req[c]) /\ Answered(req[c], 403, "UNAUTHORIZED")

(***************************************************************************)
(* C11 as stated: a change-access-level request changes the stored level   *)
(* of a user other than the requester only when that user's stored level   *)
(* is below the requester's level (the level of the requester's claim or   *)
(* the level the store holds for the requester, whichever is in the        *)
(* claim's favour).                                                        *)
(***************************************************************************)
C11_AsStated ==
    [][ \A t \in UserIds :
           (user[t].present /\ user'[t].present
              /\ user'[t].access_level # user[t].access_level)
           => \E c \in Clients :
                 /\ AccessLevelRequest(req[c]) /\ req[c].tid.val = t
                 /\ Answered(req'[c], 200, "")
                 /\ \/ t = req[c].userInfo.id
                    \/ user[t].access_level < req[c].userInfo.access_level
                    \/ /\ user[req[c].userInfo.id].present
                       /\ user[t].access_level < user[req[c].userInfo.id].access_level
      ]_vars

(***************************************************************************)
(* Vocabulary of C12: the privileged routes of the model, and the answer   *)
(* with which each of them turns away a requester whose level is too low.  *)
(***************************************************************************)
PrivilegedRoutes == {"changeAccessLevel", "removeUser", "addTopic"}

MinLevelRejected(r) ==
    /\ r.status = 403
    /\ r.code = IF r.route = "addTopic" THEN "UNAUTHORIZED_ACCESS_LEVEL" ELSE "UNAUTHORIZED"

(***************************************************************************)
(* C12 as stated: while the access claim of a request is unexpired, the    *)
(* privileged action is decided by the level the claim carries, whatever   *)
(* level the store holds: the request is turned away for its level exactly *)
(* when the claim's level is below the admin level.                        *)
(***************************************************************************)
C12_AsStated ==
    \A c \in Clients :
        (req[c].route \in PrivilegedRoutes /\ req[c].pc = "done" /\ req[c].status # 500
           /\ JwtVerifies(req[c].cookies.access, now))
        => (MinLevelRejected(req[c]) <=> req[c].userInfo.access_level < ACCESS_LEVEL_ADMIN)


(***************************************************************************)
(* C13: there is no revocation on the server.  logout answers 200,        *)
(* clears both cookies on the response and changes nothing the server      *)
(* keeps (no user, topic or vote, and no connection of the pool).  When a  *)
(* gate examines a request, an access token is accepted (the handler runs  *)
(* under the token's claim) exactly when the time is before the token's    *)
(* expiry, whether or not its client has logged out and whether or not its *)
(* subject is still stored; when the access token does not verify, a       *)
(* refresh token takes the gate to the renewal exactly when the time is    *)
(* before its expiry.                                                      *)
(***************************************************************************)
C13_NoRevocation ==
    [][ \A c \in Clients :
           /\ (req[c].route = "logout" /\ req[c].pc = "route" /\ req'[c].pc # "route")
              => /\ Answered(req'[c], 200, "") /\ BothCleared(req'[c])
                 /\ user' = user /\ topic' = topic /\ user_choice' = user_choice
                 /\ free' = free
           /\ (req[c].route \in GateRoutes /\ req[c].pc = "gate" /\ req'[c].pc # "gate")
              => LET k == req[c].cookies
                 IN /\ k.access.kind = "jwt"
                       => ((req'[c].pc = "route" /\ req'[c].userInfo = k.access)
                           <=> now < k.access.exp)
                    /\ (k.refresh.kind = "jwt" /\ ~(k.access.kind = "jwt" /\ now < k.access.exp))
                       => (req'[c].pc = "cat_conn" <=> now < k.refresh.exp)
      ]_vars

\* a client whose jar holds no cookie any more has sent the access token it
\* kept from its first login, and the route has answered under its claim
C13_Witness ==
    \E c \in Clients :
        /\ jar[c] = [access |-> NoToken, refresh |-> NoToken]
        /\ kept[c].access.kind = "jwt"
        /\ req[c].cookies = kept[c]
        /\ req[c].route \in GateRoutes
        /\ req[c].userInfo = kept[c].access
        /\ req[c].pc = "done" /\ req[c].status \in {200, 201}

(***************************************************************************)
(* C14: every stored access level is one of 1, 2, 3, 4, and a              *)
(* changeAccessLevel request whose value is absent, is no integer or lies  *)
(* outside 1..4 is rejected with 400 and changes nothing: NO_ACCESS_LEVEL  *)
(* when the value is absent, INVALID_ACCESS_LEVEL otherwise.  The requests *)
(* looked at are those the checks on the value decide: the identity has    *)
(* the admin level at least, the user id is well formed and no store error *)
(* occurs; the value 0 may be answered with either code.                   *)
(***************************************************************************)
AccessLevels == ACCESS_LEVEL_USER..ACCESS_LEVEL_DEVELOPER

\* the value of body['access-level'] is no integer of 1..4
OutsideAccessLevels(lvl) ==
    lvl.kind = "absent" \/ lvl.kind = "frac" \/ lvl.val \notin AccessLevels

C14_AsStated ==
    /\ \A t \in UserIds : user[t].present => user[t].access_level \in AccessLevels
    /\ \A c \in Clients :
          LET r == req[c]
          IN (AccessLevelRequest(r) /\ r.pc = "done" /\ r.status # 500
                /\ r.userInfo.access_level >= ACCESS_LEVEL_ADMIN /\ r.tid.isInt
                /\ OutsideAccessLevels(r.lvl))
             => /\ r.status = 400 /\ ~r.wrote
                /\ r.code \in {"NO_ACCESS_LEVEL", "INVALID_ACCESS_LEVEL"}
                /\ r.lvl.kind = "absent" => r.code = "NO_ACCESS_LEVEL"
                /\ r.lvl.kind # "absent" /\ r.lvl.val # 0 => r.code = "INVALID_ACCESS_LEVEL"

(***************************************************************************)
(* C15: a request rejected for authentication or authorization reasons is  *)
(* answered with status 401 or 403 and an error code.  As stated, the code *)
(* is one of USER_NOT_LOGGED_IN, USER_LOGIN_ENDED, UNAUTHORIZED and        *)
(* UNAUTHORIZED_ACCESS_LEVEL.                                              *)
(***************************************************************************)
AuthFailureCodes ==
    {"USER_NOT_LOGGED_IN", "USER_LOGIN_ENDED", "UNAUTHORIZED", "UNAUTHORIZED_ACCESS_LEVEL"}

Codes401 == {"USER_NOT_LOGGED_IN", "USER_LOGIN_ENDED", "NO_USER"}
Codes403 == {"UNAUTHORIZED", "UNAUTHORIZED_ACCESS_LEVEL", "UNAUTHORIZED_ACCESS"}

Holds(r) == r.conn \/ r.pc = "cat_query"

\* the positions of a request outside its routine
OutsideRoutine == {"idle", "gate", "cat_conn", "cat_query", "route", "done"}

C16_ScopedRelease ==
    /\ free \in 0..DB_CONN_LIMIT
    /\ free + Cardinality({c \in Clients : Holds(req[c])}) = DB_CONN_LIMIT
    /\ \A c \in Clients :
          /\ req[c].pc \in OutsideRoutine => ~req[c].conn
          /\ req[c].conn => CreateConn(req[c].route)
          /\ req[c].pc \notin OutsideRoutine => req[c].conn

\* addTopic has thrown a RouteError after its first query, on the connection
\* it had taken, and holds none any more, while the other client's routine
\* holds a connection
C16_Witness ==
    \E c, d \in Clients :
        /\ c # d
        /\ req[c].route = "addTopic" /\ Answered(req[c], 400, "NO_TOPIC_NAME")
        /\ ~req[c].conn
        /\ req[d].conn
        /\ free = DB_CONN_LIMIT - 1

(***************************************************************************)
(* C17: login answers 200 and sets both cookies, the refresh_token cookie  *)
(* with the claim {id} and the access_token cookie with the claim          *)
(* {id, username, access_level} of the stored row, if and only if the      *)
(* username exists and the password verifies against the stored hash; in   *)
(* every other case it answers an error and sets no cookie.  The requests  *)
(* looked at are those whose username names at most one user and that are  *)
(* not answered 500.                                                       *)
(***************************************************************************)
\* the users a login request names
Named(r) == {i \in UserIds : user[i].present /\ user[i].username = r.name}

\* the username exists and the password verifies against the stored hash
CredentialsHold(r) == \E i \in Named(r) : BcryptCompare(r.pw, user[i].password_hash)

\* both cookies are set, with the claims of user i
LoggedInAs(r, i) ==
    /\ r.refreshOp = "set" /\ r.newRefresh.kind = "jwt" /\ r.newRefresh.id = i
    /\ r.accessOp = "set" /\ r.newAccess.kind = "jwt" /\ r.newAccess.id = i
    /\ r.newAccess.username = user[i].username
    /\ r.newAccess.access_level = user[i].access_level

C17_AsStated ==
    \A c \in Clients :
        LET r == req[c]
        IN (r.route = "login" /\ r.pc = "done" /\ r.status # 500 /\ Cardinality(Named(r)) <= 1)
           => IF CredentialsHold(r)
              THEN r.status = 200 /\ \E i \in Named(r) : LoggedInAs(r, i)
              ELSE r.status >= 400 /\ Untouched(r)

(***************************************************************************)
(* C18: the session lifecycle.  login with the username and the password   *)
(* of a registered user answers 200 and sets both cookies; getInfo sent    *)
(* next with those cookies, before the access token expires, answers 200   *)
(* with the id and the access level of that user; logout answers 200 and   *)
(* clears both cookies; getInfo sent after that carries no cookie and is   *)
(* answered 401.  Answers 500, which a failure of the store or of the pool *)
(* gives at any step, are left aside.                                      *)
(***************************************************************************)
C18_Lifecycle ==
    LET r == req[LifecycleClient]
    IN (r.pc = "done" /\ r.status # 500) =>
          /\ (nreq = 1 /\ CredentialsHold(r)) =>
                /\ r.status = 200 /\ r.accessOp = "set" /\ r.refreshOp = "set"
                /\ \E i \in Named(r) : r.newRefresh = JwtSign(i, <<>>, 0, now, JWT_REFRESH_EXPIRE_TIME)
          /\ (nreq = 2 /\ JwtVerifies(r.cookies.access, now)) =>
                /\ r.status = 200
                /\ r.userInfo.id = r.cookies.refresh.id
                /\ user[r.userInfo.id].present
                /\ r.userInfo.access_level = user[r.userInfo.id].access_level
          /\ nreq = 3 => r.status = 200 /\ BothCleared(r)
          /\ nreq = 4 =>
                /\ r.cookies = [access |-> NoToken, refresh |-> NoToken]
                /\ Answered(r, 401, "NO_USER")

\* the last getInfo of the lifecycle has been answered 401
C18_Witness ==
    /\ nreq = Len(Lifecycle)
    /\ Answered(req[LifecycleClient], 401, "NO_USER")

(***************************************************************************)
(* C19: whenever a response sets the access_token or the refresh_token     *)
(* cookie, the expiry of the cookie is the expiry instant of the claim the *)
(* cookie carries, and the refresh_token cookie is HTTP-only.              *)
(***************************************************************************)
\* the Date of the instant t
Instant(t) == [valid |-> TRUE, time |-> t]

C19_AsStated ==
    \A c \in Clients :
        LET r == req[c]
        IN r.pc = "done" =>
              /\ (r.accessOp = "set" /\ r.newAccess.kind = "jwt")
                 => r.accessOpts.expires = Instant(r.newAccess.exp)
              /\ r.refreshOp = "set"
                 => /\ r.refreshOpts.expires = Instant(r.newRefresh.exp)
                    /\ r.refreshOpts.httpOnly

(***************************************************************************)
(* C20: one vote per discussion.  After every step each user has at most   *)
(* one recorded choice in each discussion.  When addUserChoice reaches its *)
(* INSERT for a user who has a recorded choice in the discussion of the    *)
(* choice, be it the same choice or another one, the recorded votes stay   *)
(* as they are and the answer is 400 USER_ALREADY_VOTED (500 when the      *)
(* store fails); a vote is recorded only with the answer 201, and it is    *)
(* the vote of the requesting identity for the choice of the request.      *)
(***************************************************************************)
\* the votes recorded for the user in the discussion
VotesOf(votes, u, d) == {v \in votes : v.user_id = u /\ v.discussion_id = d}

C20_OneVote ==
    [][ /\ \A v, w \in user_choice' :
              (v.user_id = w.user_id /\ v.discussion_id = w.discussion_id) => v = w
        /\ \A c \in Clients :
              (req[c].pc = "auc_insert" /\ req'[c].pc = "done") =>
                 \E ch \in choice :
                    /\ ch.id = req[c].tid.val
                    /\ LET row == UserChoiceRow(req[c], ch)
                       IN /\ VotesOf(user_choice, row.user_id, row.discussion_id) # {}
                             => /\ user_choice' = user_choice
                                /\ req'[c].status \in {400, 500}
                                /\ req'[c].status = 400 => req'[c].code = "USER_ALREADY_VOTED"
                          /\ user_choice' # user_choice
                             => /\ req'[c].status = 201
                                /\ user_choice' = user_choice \cup {row}
      ]_vars

\* a user with a recorded choice in a discussion has voted for another choice
\* of that discussion and has been answered USER_ALREADY_VOTED
C20_Witness ==
    \E c \in Clients :
        /\ req[c].route = "addUserChoice"
        /\ Answered(req[c], 400, "USER_ALREADY_VOTED")
        /\ \E v \in user_choice, ch \in choice :
              /\ v.user_id = req[c].userInfo.id
              /\ ch.id = req[c].tid.val
              /\ v.discussion_id = ch.discussion_id
              /\ v.choice_id # ch.id


(***************************************************************************)
(* Registration and usernames.                                             *)
(***************************************************************************)
\* the stored users
Stored == {i \in UserIds : user[i].present}

\* C21: after any sequence of register and change-username requests no two
\* stored users have the same username (a request naming a username in use
\* being rejected with 400 USERNAME_ALREADY_TAKEN and changing nothing)
C21_AsStated ==
    \A i, j \in Stored : i # j => user[i].username # user[j].username


(***************************************************************************)
(* Quibble removal.                                                        *)
(***************************************************************************)
\* the step in which removeQuibble has the answer of validateAccessLevel
LevelDecided(c) ==
    /\ req[c].route = "removeQuibble"
    /\ req[c].pc = "rq_level"
    /\ req'[c].pc # "rq_level"
    /\ req'[c].status # 500

\* C22: DELETE /quibble/:id is open to moderators: a requester whose level is
\* 2 or above is not turned away for its level, and a requester of level 1
\* is rejected with 403 and the quibbles are unchanged
C22_AsStated ==
    [][\A c \in Clients :
          LevelDecided(c) =>
             LET level == user[req[c].userInfo.id].access_level
             IN /\ level >= ACCESS_LEVEL_MODERATOR => req'[c].status # 403
                /\ level < ACCESS_LEVEL_MODERATOR => req'[c].status = 403 /\ quibble' = quibble]_vars


\* the request of c has been answered 200 'Successfully removed quibble'
RemovedQuibble(c) ==
    /\ req[c].route = "removeQuibble"
    /\ req[c].pc = "done"
    /\ req[c].status = 200

\* C30: a quibble is removed once: of the DELETE /quibble/:id requests on one
\* quibble at most one is answered 200, whatever the interleaving
C30_AsStated ==
    \A c, d \in Clients :
        RemovedQuibble(c) /\ RemovedQuibble(d) /\ req[c].tid = req[d].tid => c = d


(***************************************************************************)
(* POST /auth/renew-access-token.                                          *)
(***************************************************************************)
\* C23: every 201 answer of POST /auth/renew-access-token comes with a new
\* access_token cookie, signed for the subject of the request's refresh token
C23_AsStated ==
    \A c \in Clients :
        LET r == req[c]
        IN (r.route = "renewAccessToken" /\ Answered(r, 201, "")) =>
              /\ r.accessOp = "set"
              /\ r.newAccess.kind = "jwt"
              /\ r.newAccess.id = r.cookies.refresh.id


(***************************************************************************)
(* Privileges.                                                             *)
(***************************************************************************)
\* the signed tokens a client or a request in flight holds
TokensHeld ==
    UNION {{jar[c].access, kept[c].access, req[c].cookies.access,
            req[c].userInfo, req[c].newAccess} : c \in Clients}

\* the access levels stored users hold and unexpired access claims carry
LevelsHeld ==
    {user[i].access_level : i \in Stored}
    \cup {tok.access_level : tok \in {t \in TokensHeld : JwtVerifies(t, now)}}

\* the step in which the registration of c stores its row
Registers(c) ==
    /\ req[c].route = "addUser"
    /\ req[c].pc = "au_insert"
    /\ req'[c].status = 201

GateEnded(r) ==
    /\ r.route \in GateRoutes
    /\ GateOver(r)
    /\ r.pc = "route" \/ (r.pc = "done" /\ Count(r.glog, "next") = 0)

\* two requests met their gates with the same cookies, at the same time and
\* with the same outcome of the store
SameCase(r, q) ==
    /\ r.route \in StrictRoutes /\ q.route \in SoftRoutes
    /\ GateEnded(r) /\ GateEnded(q)
    /\ r.cookies = q.cookies
    /\ StoreFault(r) = StoreFault(q)

\* C25: on the same token states and the same store outcome jwtVerifyStrict
\* and jwtVerifySoft attach the same identity or none, set a new
\* access_token cookie in the same cases and clear the cookies in the same
\* cases
C25_AsStated ==
    \A c, d \in Clients :
        SameCase(req[c], req[d]) =>
           /\ req[c].userInfo = req[d].userInfo
           /\ req[c].accessOp = "set" <=> req[d].accessOp = "set"
           /\ BothCleared(req[c]) <=> BothCleared(req[d])

\* C26: when the refresh token verifies and the store lookup of the renewal
\* fails, the gate attaches no identity and sets no access_token cookie, and
\* the session goes on: the cookies are not cleared and the answer is not
\* USER_LOGIN_ENDED, behind jwtVerifyStrict as behind jwtVerifySoft
C26_AsStated ==
    \A c \in Clients :
        LET r == req[c]
        IN (GateEnded(r) /\ RefreshVerifies(r) /\ StoreFault(r)) =>
              /\ ~HasIdentity(r)
              /\ r.accessOp # "set"
              /\ r.accessOp # "clear" /\ r.refreshOp # "clear"
              /\ r.code # "USER_LOGIN_ENDED"

(***************************************************************************)
(* Error routing.                                                          *)
(***************************************************************************)
\* the entries of the route's translator under the code of the error
Translations(r) == {e \in ErrorTranslator(r.route) : e.key = r.err.code}

\* C27: for every error thrown under resolveRouteHandler next is called once
\* and the client gets one answer: a RouteError is answered with its own
\* status and code, another error whose code is a key of the route's
\* translator with the translated status and code, any other error with 500
\* INTERNAL_SERVER_ERROR; when nothing is thrown next is not called
C27_ErrorRouting ==
    \A c \in Clients :
        LET r == req[c]
        IN /\ r.err = NoError => r.nexts = 0 /\ r.sent <= 1
           /\ r.err # NoError =>
                 /\ r.nexts = 1 /\ r.sent = 1
                 /\ r.err.kind = "RouteError" => Answered(r, r.err.status, r.err.code)
                 /\ (r.err.kind # "RouteError" /\ Translations(r) # {}) =>
                        \E e \in Translations(r) : Answered(r, e.status, e.code)
                 /\ (r.err.kind # "RouteError" /\ Translations(r) = {}) =>
                        Answered(r, 500, "INTERNAL_SERVER_ERROR")

\* the store has refused a second topic of the same name, and the request
\* is answered with the translation of ER_DUP_ENTRY
C27_Witness ==
    \E c \in Clients :
        /\ req[c].route = "addTopic"
        /\ req[c].err = SqlError("ER_DUP_ENTRY")
        /\ Answered(req[c], 400, "TOPIC_ALREADY_EXISTS")
        /\ req[c].nexts = 1

(***************************************************************************)
(* The pool.                                                               *)
(***************************************************************************)
\* the connections of the pool the request holds
Held(r) == (IF r.conn THEN 1 ELSE 0) + (IF r.dbConn THEN 1 ELSE 0)

\* the request awaits dbPool.getConnection()
Asking(r) == r.pc = "cat_conn" \/ (r.pc = "route" /\ CreateConn(r.route))

\* C28: a request holds at most one connection of the pool and holds none
\* while it asks for one, and every request that asks for a connection gets
\* on, whatever the size of the pool
C28_NoHoldAndWait ==
    /\ [](\A c \in Clients : Held(req[c]) <= 1 /\ (Asking(req[c]) => Held(req[c]) = 0))
    /\ \A c \in Clients : Asking(req[c]) ~> ~Asking(req[c])

\* the gate of a request has renewed the access token on a connection of its
\* own, and the request now waits for the connection of its handler, which
\* the other request holds
C28_Witness ==
    \E c, d \in Clients :
        /\ c # d
        /\ Asking(req[c]) /\ req[c].pc = "route"
        /\ Count(req[c].glog, "query") = 1
        /\ free = 0
        /\ Held(req[d]) = 1

(***************************************************************************)
(* Username change under a concurrent role change.                         *)
(***************************************************************************)
\* the step in which changeUsername's UPDATE renames the target of c
Renames(c) ==
    /\ req[c].route = "changeUsername"
    /\ req[c].pc = "cu_update"
    /\ req'[c].status = 200
    /\ user[req[c].tid.val].present

\* C29: the UPDATE of a change-username request of an actor other than the
\* target is not applied to a target whose stored access level, at the
\* moment of the UPDATE, is equal to or higher than the actor's level
C29_AsStated ==
    [][\A c \in Clients :
          (Renames(c) /\ req[c].userInfo.id # req[c].tid.val) =>
             user[req[c].tid.val].access_level < req[c].userInfo.access_level]_vars

====
